---- MODULE Spec2Model ----
(***************************************************************************)
(* Model of jitsi/js-utils:                                                *)
(*   - Transport (src/transport/Transport.ts): request/response/event      *)
(*     multiplexer over a pluggable backend;                               *)
(*   - Postis (src/transport/postis.js): the postMessage channel with its  *)
(*     readiness handshake and send buffer;                                *)
(*   - JitsiLocalStorage (jitsi-local-storage): the wrapper that switches  *)
(*     between window.localStorage and an in-memory storage;               *)
(*   - AnalyticsCacheAdapater (src/analytics): the event cache in front of *)
(*     the analytics handlers.                                             *)
(* Two specifications share the variables: SpecTransport drives one        *)
(* Transport over backends that implement ITransportBackend, SpecChannel   *)
(* drives two Postis instances that target each other's window.            *)
(***************************************************************************)
EXTENDS Integers, Sequences, FiniteSets, TLC

VARIABLES transport, backend, promises, history, last,
          postis, windows, trace, peers,
          storage, analytics

vars == <<transport, backend, promises, history, last,
          postis, windows, trace, peers, storage, analytics>>

transportVars == <<transport, backend, promises, history, last>>
channelVars == <<postis, windows, trace, peers>>
utilVars == <<storage, analytics>>

(***************************************************************************)
(* Bounds of the model.                                                    *)
(***************************************************************************)
MaxRequests == 2
MaxEmissions == 2
MaxListeners == 2
MaxSends == 3
MaxInFlight == 1
MaxInjected == 2
MaxEvents == 102
MaxReadyCalls == 2

(***************************************************************************)
(* JavaScript values.  Payloads are strings; "undefined" is the value of   *)
(* an absent field, "0" a defined but falsy value.                         *)
(***************************************************************************)
undefined == "undefined"
null == "null"

Data == {"d1", "d2"}
ResultValues == {undefined, "0", "r1"}
ErrorValues == {undefined, "e1"}

Truthy(v) == v \notin {undefined, null, "0", "false"}

NoBackendError == "Error: No transport backend defined!"
UnexpectedFormatError == "Error: Unexpected response format!"
SendError == "Error: backend send failed"
NullBackendTypeError == "TypeError: this._backend is null"
noException == "none"

(***************************************************************************)
(* MessageType (src/transport/constants.ts).                               *)
(***************************************************************************)
EVENT == "event"
REQUEST == "request"
RESPONSE == "response"

(* An envelope; id 0 stands for an absent id. *)
Envelope(type, data, id, result, error) ==
    [type |-> type, data |-> data, id |-> id, result |-> result, error |-> error]

(***************************************************************************)
(* The environment of one Transport: backends implementing                 *)
(* ITransportBackend, and listener functions.  A listener is application   *)
(* code; four behaviours are enumerated:                                   *)
(*   claim       returns true                                              *)
(*   ignore      returns undefined                                         *)
(*   respond     calls the responder (when given one) with its data as     *)
(*               result, and returns true                                  *)
(*   respondOnly calls the responder (when given one) and returns          *)
(*               undefined, like (data, respond) => respond(...)           *)
(***************************************************************************)
Backends == {"b1", "b2"}
Listeners == {"claim", "ignore", "respond", "respondOnly"}
EventNames == {"request", "event"}

(* No responder among the arguments of a call. *)
noResponder == -1

(* The argument list of an emission: args[0] and, for a request, the
   responder closure, which captures the id of the request. *)
Args(data, responder) == [data |-> data, responder |-> responder]

noEvents == [calls |-> <<>>, sent |-> <<>>, handled |-> <<>>, disposed |-> <<>>,
             wired |-> <<>>, via |-> ""]

(* F applied to the value of e: e is computed once. *)
Bind(e, F(_)) == CHOOSE r \in {F(x) : x \in {e}} : TRUE

(* The world an operation of the Transport reads and writes.  exc is the
   exception in flight, ret the value the last call returned, failAt the
   backend send of this operation that throws (0: none does). *)
World(failAt) ==
    [t |-> transport, b |-> backend, p |-> promises, h |-> history,
     ev |-> noEvents, exc |-> noException, ret |-> undefined,
     failAt |-> failAt]

Throw(w, e) == [w EXCEPT !.exc = e]
Return(w, v) == [w EXCEPT !.ret = v]
Thrown(w) == w.exc # noException

(***************************************************************************)
(* ITransportBackend (src/transport/types.ts), as the Transport sees it:   *)
(* send may throw; callback tells whether setReceiveCallback has handed it *)
(* the Transport's _onMessageReceived, disposed whether dispose was called.*)
(***************************************************************************)
BackendInit == [callback |-> FALSE, disposed |-> FALSE]

(* this._backend.send(msg) *)
BackendSend(w, msg) ==
    IF Thrown(w) THEN w
    ELSE IF w.t._backend = null THEN Throw(w, NullBackendTypeError)
    ELSE LET b == w.t._backend
             threw == (Len(w.ev.sent) + 1 = w.failAt)
             w1 == [w EXCEPT !.ev.sent =
                        Append(@, [backend |-> b, msg |-> msg, threw |-> threw])]
         IN IF threw THEN Throw(w1, SendError) ELSE w1

(* this._backend.dispose() *)
BackendDispose(w, b) ==
    [w EXCEPT !.b[b].disposed = TRUE,
              !.ev.disposed = Append(@, b)]

(***************************************************************************)
(* Transport                                                               *)
(***************************************************************************)
TransportInit ==
    [_listeners |-> [n \in EventNames |-> <<>>],
     _requestID |-> 0,
     _responseHandlers |-> {},
     _unprocessedMessages |-> <<>>,
     _backend |-> null]

(* requestIds: the ids put on the Request envelopes handed to a backend so
   far; entries: the number of argument lists added to the backlog so far
   (each is a distinct array; eid tells them apart); sinceDispose: dispose()
   was called on a Transport with pending requests, listeners and a backend,
   and the application has not called the Transport since. *)
HistoryInit == [requestIds |-> <<>>, entries |-> 0, sinceDispose |-> FALSE]

_disposeBackend(w) ==
    IF w.t._backend # null
    THEN [BackendDispose(w, w.t._backend) EXCEPT !.t._backend = null]
    ELSE w

(* A responder that answers under the next id. *)
ResponderWrongId(w, id, result, error) ==
    BackendSend(w, Envelope(RESPONSE, undefined, id + 1, result, error))

(* A responder that sends through the backend its Request came in on. *)
ResponderViaArrival(w, id, result, error) ==
    IF w.ev.via = "" THEN BackendSend(w, Envelope(RESPONSE, undefined, id, result, error))
    ELSE [w EXCEPT !.ev.sent =
              Append(@, [backend |-> w.ev.via,
                         msg |-> Envelope(RESPONSE, undefined, id, result, error),
                         threw |-> FALSE])]

(* The responder closure handed to 'request' listeners. *)
Responder(w, id, result, error) ==
    BackendSend(w, Envelope(RESPONSE, undefined, id, result, error))

(* One call listener(...args), recorded with what it returned.  eid names
   the backlog entry replayed (0 for a call made by emit) and name the event
   name the arguments were emitted under. *)
Called(w, l, args, eid, name, ret) ==
    Bind(w, LAMBDA x :
        LET call == [listener |-> l, args |-> args, eid |-> eid, name |-> name,
                     ret |-> IF Thrown(x) THEN "threw" ELSE ret]
            w1 == [x EXCEPT !.ev.calls = Append(@, call)]
        IN IF Thrown(x) THEN w1 ELSE Return(w1, ret))

CallListener(w, l, args, eid, name) ==
    IF Thrown(w) THEN w
    ELSE LET answered == Responder(w, args.responder, args.data, undefined)
         IN CASE l = "claim" -> Called(w, l, args, eid, name, "true")
              [] l = "ignore" -> Called(w, l, args, eid, name, undefined)
              [] l = "respond" ->
                    IF args.responder = noResponder
                    THEN Called(w, l, args, eid, name, "false")
                    ELSE Called(answered, l, args, eid, name, "true")
              [] l = "respondOnly" ->
                    IF args.responder = noResponder
                    THEN Called(w, l, args, eid, name, undefined)
                    ELSE Called(answered, l, args, eid, name, undefined)

(* a || b *)
Or(a, b) == IF Truthy(a) THEN a ELSE b

(* EmitLoop as isProcessed = isProcessed || listener(...args): no listener
   is called once one has claimed the emission. *)
RECURSIVE EmitLoopShortCircuit(_, _, _, _, _)
EmitLoopShortCircuit(w, ls, eventName, args, isProcessed) ==
    IF Thrown(w) THEN w
    ELSE IF ls = <<>> \/ Truthy(isProcessed) THEN Return(w, isProcessed)
    ELSE LET w1 == CallListener(w, Head(ls), args, 0, eventName)
         IN IF Thrown(w1) THEN w1
            ELSE EmitLoopShortCircuit(w1, Tail(ls), eventName, args,
                                      Or(isProcessed, w1.ret))

(* listenersForEvent.forEach(listener =>
       isProcessed = listener(...args) || isProcessed) *)
RECURSIVE EmitLoop(_, _, _, _, _)
EmitLoop(w, ls, eventName, args, isProcessed) ==
    IF Thrown(w) THEN w
    ELSE IF ls = <<>> THEN Return(w, isProcessed)
    ELSE Bind(CallListener(w, Head(ls), args, 0, eventName),
              LAMBDA w1 :
                  IF Thrown(w1) THEN w1
                  ELSE EmitLoop(w1, Tail(ls), eventName, args,
                                Or(w1.ret, isProcessed)))

AddUnprocessed(w, eventName, args) ==
    [w EXCEPT !.h.entries = @ + 1,
              !.t._unprocessedMessages =
                  Append(@, [eid |-> w.h.entries + 1, name |-> eventName,
                             args |-> args])]

(* emit that keeps no entry once a listener has called the responder. *)
emitDropsAnswered(w, eventName, args) ==
    Bind(EmitLoop(w, w.t._listeners[eventName], eventName, args, "false"),
         LAMBDA w1 :
             IF Thrown(w1) THEN w1
             ELSE IF ~Truthy(w1.ret) /\ w1.ev.sent = <<>>
                  THEN Return(AddUnprocessed(w1, eventName, args), w1.ret)
                  ELSE w1)

emit(w, eventName, args) ==
    Bind(EmitLoop(w, w.t._listeners[eventName], eventName, args, "false"),
         LAMBDA w1 :
             IF Thrown(w1) THEN w1
             ELSE IF ~Truthy(w1.ret)
                  THEN Return(AddUnprocessed(w1, eventName, args), w1.ret)
                  ELSE w1)

SelectEntries(q, eid) == SelectSeq(q, LAMBDA e : e.eid # eid)

(* Replay that leaves the entries the listener claimed in the backlog. *)
RECURSIVE ReplayKeepsClaimed(_, _, _)
ReplayKeepsClaimed(w, entries, listener) ==
    IF Thrown(w) \/ entries = <<>> THEN w
    ELSE ReplayKeepsClaimed(CallListener(w, listener, Head(entries).args,
                                         Head(entries).eid, Head(entries).name),
                            Tail(entries), listener)

(* this._unprocessedMessages.forEach(args => {
       if (listener(...args)) this._unprocessedMessages.delete(args); }) *)
RECURSIVE Replay(_, _, _)
Replay(w, entries, listener) ==
    IF Thrown(w) \/ entries = <<>> THEN w
    ELSE LET e == Head(entries)
         IN Bind(CallListener(w, listener, e.args, e.eid, e.name),
                 LAMBDA w1 :
                     Replay(IF ~Thrown(w1) /\ Truthy(w1.ret)
                            THEN [w1 EXCEPT !.t._unprocessedMessages =
                                                SelectEntries(@, e.eid)]
                            ELSE w1,
                            Tail(entries), listener))

SetAdd(seq, x) == IF \E i \in 1..Len(seq) : seq[i] = x THEN seq ELSE Append(seq, x)
SetDelete(seq, x) == SelectSeq(seq, LAMBDA y : y # x)

(* on that only registers the listener: the backlog is not replayed. *)
onWithoutReplay(w, eventName, listener) ==
    Return([w EXCEPT !.t._listeners[eventName] = SetAdd(@, listener)], "this")

(* on that replays only the entries emitted under eventName. *)
onReplaysOwnName(w, eventName, listener) ==
    LET w1 == [w EXCEPT !.t._listeners[eventName] = SetAdd(@, listener)]
        w2 == Replay(w1, SelectSeq(w1.t._unprocessedMessages,
                                   LAMBDA e : e.name = eventName), listener)
    IN IF Thrown(w2) THEN w2 ELSE Return(w2, "this")

on(w, eventName, listener) ==
    LET w1 == [w EXCEPT !.t._listeners[eventName] = SetAdd(@, listener)]
        w2 == Replay(w1, w1.t._unprocessedMessages, listener)
    IN IF Thrown(w2) THEN w2 ELSE Return(w2, "this")

removeAllListeners(w, eventName) ==
    IF eventName # undefined
    THEN Return([w EXCEPT !.t._listeners[eventName] = <<>>], "this")
    ELSE Return([w EXCEPT !.t._listeners = [n \in EventNames |-> <<>>]], "this")

removeListener(w, eventName, listener) ==
    Return([w EXCEPT !.t._listeners[eventName] = SetDelete(@, listener)], "this")

(* dispose that also restarts the request-ID counter. *)
disposeResetsRequestID(w) ==
    LET w1 == [w EXCEPT !.t._responseHandlers = {},
                        !.t._unprocessedMessages = <<>>,
                        !.t._requestID = 0]
        w2 == removeAllListeners(w1, undefined)
    IN Return(_disposeBackend(w2), undefined)

dispose(w) ==
    LET w1 == [w EXCEPT !.t._responseHandlers = {},
                        !.t._unprocessedMessages = <<>>]
        w2 == removeAllListeners(w1, undefined)
    IN Return(_disposeBackend(w2), undefined)

(* backend.setReceiveCallback(this._onMessageReceived.bind(this)); the
   call is recorded with the number of disposals made before it. *)
SetReceiveCallback(w, b) ==
    [w EXCEPT !.b[b].callback = TRUE,
              !.ev.wired = Append(@, [backend |-> b, after |-> Len(w.ev.disposed)])]

(* setBackend that wires the new backend before it disposes the old one. *)
setBackendWiresFirst(w, b) ==
    LET w1 == _disposeBackend(SetReceiveCallback(w, b))
    IN Return([w1 EXCEPT !.t._backend = b], undefined)

setBackend(w, b) ==
    LET w1 == _disposeBackend(w)
    IN Return(SetReceiveCallback([w1 EXCEPT !.t._backend = b], b), undefined)

sendEvent(w, event) ==
    IF w.t._backend # null
    THEN LET w1 == BackendSend(w, Envelope(EVENT, event, 0, undefined, undefined))
         IN IF Thrown(w1) THEN w1 ELSE Return(w1, undefined)
    ELSE Return(w, undefined)

(* Promise settlement: only a pending promise changes. *)
Settle(w, k, state, value) ==
    IF w.p[k].state = "pending"
    THEN [w EXCEPT !.p[k].state = state, !.p[k].value = value]
    ELSE w

resolve(w, k, value) == Settle(w, k, "fulfilled", value)
reject(w, k, value) == Settle(w, k, "rejected", value)

(* ResponseHandler testing the truthiness of result and error instead of
   typeof ... !== 'undefined'. *)
ResponseHandlerTruthy(w, k, message) ==
    LET w1 == [w EXCEPT !.ev.handled = Append(@, k)]
    IN IF Truthy(message.result) THEN resolve(w1, k, message.result)
       ELSE IF Truthy(message.error) THEN reject(w1, k, message.error)
       ELSE reject(w1, k, UnexpectedFormatError)

(* ResponseHandler taking a response with both fields for a malformed
   one. *)
ResponseHandlerExactlyOne(w, k, message) ==
    LET w1 == [w EXCEPT !.ev.handled = Append(@, k)]
    IN IF message.result # undefined /\ message.error = undefined
       THEN resolve(w1, k, message.result)
       ELSE IF message.error # undefined /\ message.result = undefined
       THEN reject(w1, k, message.error)
       ELSE reject(w1, k, UnexpectedFormatError)

(* The response handler sendRequest registers for promise k. *)
ResponseHandler(w, k, message) ==
    LET w1 == [w EXCEPT !.ev.handled = Append(@, k)]
    IN IF message.result # undefined THEN resolve(w1, k, message.result)
       ELSE IF message.error # undefined THEN reject(w1, k, message.error)
       ELSE reject(w1, k, UnexpectedFormatError)

MapSet(m, id, k) == {e \in m : e.id # id} \cup {[id |-> id, promise |-> k]}
MapDelete(m, id) == {e \in m : e.id # id}
MapHas(m, id) == \E e \in m : e.id = id
(* MapGet returning the handler of the oldest entry, whatever the id. *)
MapGetOldest(m, id) == (CHOOSE e \in m : \A o \in m : e.id <= o.id).promise

MapGet(m, id) == (CHOOSE e \in m : e.id = id).promise

(* new Promise(...); id is the id of the Request envelope the promise waits
   on, 0 for a promise that no request was sent for. *)
NewPromise(w, id) ==
    [w EXCEPT !.p = Append(@, [state |-> "pending", value |-> undefined, id |-> id])]

(* sendRequest without the try/catch around send: the exception rejects the
   promise from inside the executor and the entry stays in the table. *)
sendRequestWithoutRollback(w, request) ==
    IF w.t._backend = null
    THEN LET w1 == NewPromise(w, 0)
         IN Return(reject(w1, Len(w1.p), NoBackendError), "promise")
    ELSE LET w1 == [w EXCEPT !.t._requestID = @ + 1]
             id == w1.t._requestID
             w2 == NewPromise(w1, id)
             k == Len(w2.p)
             w3 == [w2 EXCEPT !.t._responseHandlers = MapSet(@, id, k),
                              !.h.requestIds = Append(@, id)]
             w4 == BackendSend(w3, Envelope(REQUEST, request, id, undefined, undefined))
         IN IF Thrown(w4)
            THEN Return(reject([w4 EXCEPT !.exc = noException], k, w4.exc), "promise")
            ELSE Return(w4, "promise")

(* sendRequest taking the next id before it looks for a backend. *)
sendRequestCountsFirst(w, request) ==
    LET w1 == [w EXCEPT !.t._requestID = @ + 1]
        id == w1.t._requestID
    IN IF w.t._backend = null
       THEN LET w2 == NewPromise(w1, 0)
            IN Return(reject(w2, Len(w2.p), NoBackendError), "promise")
       ELSE LET w2 == NewPromise(w1, id)
                k == Len(w2.p)
                w3 == [w2 EXCEPT !.t._responseHandlers = MapSet(@, id, k),
                                 !.h.requestIds = Append(@, id)]
                w4 == BackendSend(w3, Envelope(REQUEST, request, id, undefined, undefined))
            IN IF Thrown(w4)
               THEN LET w5 == [w4 EXCEPT !.t._responseHandlers = MapDelete(@, id),
                                         !.exc = noException]
                    IN Return(reject(w5, k, w4.exc), "promise")
               ELSE Return(w4, "promise")

sendRequest(w, request) ==
    IF w.t._backend = null
    THEN LET w1 == NewPromise(w, 0)
         IN Return(reject(w1, Len(w1.p), NoBackendError), "promise")
    ELSE LET w1 == [w EXCEPT !.t._requestID = @ + 1]
             id == w1.t._requestID
             w2 == NewPromise(w1, id)
             k == Len(w2.p)
             w3 == [w2 EXCEPT !.t._responseHandlers = MapSet(@, id, k),
                              !.h.requestIds = Append(@, id)]
             w4 == BackendSend(w3, Envelope(REQUEST, request, id, undefined, undefined))
         IN IF Thrown(w4)
            THEN LET w5 == [w4 EXCEPT !.t._responseHandlers = MapDelete(@, id),
                                      !.exc = noException]
                 IN Return(reject(w5, k, w4.exc), "promise")
            ELSE Return(w4, "promise")

(* _onMessageReceived leaving the entry of an answered request in the table. *)
_onMessageReceivedKeepsEntry(w, message) ==
    IF message.type = RESPONSE
    THEN IF MapHas(w.t._responseHandlers, message.id)
         THEN Return(ResponseHandler(w, MapGet(w.t._responseHandlers, message.id),
                                     message), undefined)
         ELSE Return(w, undefined)
    ELSE IF message.type = REQUEST
    THEN LET w1 == emit(w, "request", Args(message.data, message.id))
         IN IF Thrown(w1) THEN w1 ELSE Return(w1, undefined)
    ELSE LET w1 == emit(w, "event", Args(message.data, noResponder))
         IN IF Thrown(w1) THEN w1 ELSE Return(w1, undefined)

_onMessageReceived(w, message) ==
    IF message.type = RESPONSE
    THEN IF MapHas(w.t._responseHandlers, message.id)
         THEN LET w1 == ResponseHandler(w, MapGet(w.t._responseHandlers, message.id),
                                        message)
              IN Return([w1 EXCEPT !.t._responseHandlers = MapDelete(@, message.id)],
                        undefined)
         ELSE Return(w, undefined)
    ELSE IF message.type = REQUEST
    THEN Bind(emit(w, "request", Args(message.data, message.id)),
              LAMBDA w1 : IF Thrown(w1) THEN w1 ELSE Return(w1, undefined))
    ELSE Bind(emit(w, "event", Args(message.data, noResponder)),
              LAMBDA w1 : IF Thrown(w1) THEN w1 ELSE Return(w1, undefined))

(***************************************************************************)
(* Postis (src/transport/postis.js): two instances, A and B, with the same *)
(* scope; each listens on its own window and targets the window of the     *)
(* other.  windows[i] is the queue of message events posted to the window  *)
(* instance i listens on; the browser dispatches them in the order they    *)
(* were posted.                                                            *)
(***************************************************************************)
Instances == {"A", "B"}
Peer(i) == IF i = "A" THEN "B" ELSE "A"

readyMethod == "__ready__"
POSTIS_METHOD_NAME == "message"
Methods == {readyMethod, POSTIS_METHOD_NAME}
Scope == "scope"

(* The params that cross the channel are written as records (a string s as
   [string |-> s]), so that any two of them can be compared. *)
String(s) == [string |-> s]

(* readyCheckID: a timestamp and a random number; the two instances are
   taken to draw different ones. *)
ReadyCheckID(i) == IF i = "A" THEN String("idA") ELSE String("idB")

(* The payload of the k-th message the application sends. *)
Payloads == <<String("m1"), String("m2"), String("m3"), String("m4"),
              String("m5"), String("m6")>>

(* JSON.stringify of a message object, and safeJsonParse of an event's
   data: a text is the serialisation of an object, the serialisation of
   null, or not JSON (safeJsonParse throws). *)
JSONStringify(value) == [json |-> TRUE, null |-> FALSE, value |-> value]
Parses(text) == text.json
IsNull(text) == text.null
safeJsonParse(text) == text.value

(* The origin of the script of window i, and one of some other page. *)
Origin(i) == i
foreignOrigin == "foreign"

(* The internal callback the constructor registers for readyMethod. *)
readyListener == "readyListener"

PostisInit(i) ==
    [phase |-> "none",
     canPost |-> FALSE,
     listeners |-> [m \in Methods |-> <<>>],
     sendBuffer |-> <<>>,
     listenBuffer |-> [m \in Methods |-> <<>>],
     ready |-> FALSE,
     readynessCheck |-> FALSE,
     allowedOrigin |-> undefined,
     attached |-> FALSE,
     hung |-> FALSE,
     timers |-> {}]

(* Ghost record of instance i: sentReady[k] tells whether ready was true
   when the application made its k-th send; posted lists, in order, the
   params of the application's messages that were posted to the target
   window; lost tells that an event reached the window while no
   listener was attached to it; received lists the calls of the callbacks
   of the application, each with the callback and the params it was called
   with; ignored tells that the listener
   returned from an event without calling or buffering; echoes counts the
   messages carrying the instance's own readyCheckID that its readyMethod
   callback was called with; readyCalls counts the application's calls of
   ready, and invoked lists the callbacks of those calls that were invoked,
   each with the value the liveness flag had at that moment. *)
TraceInit == [sentReady |-> <<>>, posted |-> <<>>, lost |-> FALSE,
              received |-> <<>>, ignored |-> FALSE, echoes |-> 0,
              readyCalls |-> 0, invoked |-> <<>>]

Ignore(c, i) == [c EXCEPT !.tr[i].ignored = TRUE]

(* The Transport that sits on the adapter of instance i, if any: its
   fields, the promises its sendRequest returned, and the data of the
   requests it was asked to send; connected tells that the adapter holds the
   Transport's receive callback. *)
PeerInit ==
    [t |-> TransportInit, p |-> <<>>, h |-> HistoryInit, asked |-> <<>>,
     connected |-> FALSE]

Channel == [p |-> postis, win |-> windows, tr |-> trace, app |-> peers]

PayloadNumber(params) == CHOOSE k \in 1..Len(Payloads) : Payloads[k] = params

(* targetWindow.postMessage(data, "*") *)
postMessage(c, i, method, data) ==
    [c EXCEPT !.win[Peer(i)] = Append(@, [data |-> data, origin |-> Origin(i)]),
              !.tr[i].posted = IF method = readyMethod THEN @
                               ELSE Append(@, data.value.params)]

send(c, i, opts) ==
    IF (c.p[i].ready \/ opts.method = readyMethod) /\ c.p[i].canPost
    THEN postMessage(c, i, opts.method,
                     JSONStringify([postis |-> TRUE, scope |-> Scope,
                                    method |-> opts.method, params |-> opts.params]))
    ELSE [c EXCEPT !.p[i].sendBuffer = Append(@, opts)]

(* for (var i = 0; i < sendBuffer.length; i++) postis.send(sendBuffer[i]);
   a send that pushes onto sendBuffer keeps the loop from ever ending. *)
RECURSIVE FlushNewestFirst(_, _, _)
FlushNewestFirst(c, i, n) ==
    IF n < 1 THEN c
    ELSE FlushNewestFirst(send(c, i, c.p[i].sendBuffer[n]), i, n - 1)

FlushLoopNewestFirst(c, i, n) == FlushNewestFirst(c, i, Len(c.p[i].sendBuffer))

RECURSIVE FlushLoop(_, _, _)
FlushLoop(c, i, n) ==
    IF n > Len(c.p[i].sendBuffer) THEN c
    ELSE Bind(send(c, i, c.p[i].sendBuffer[n]),
              LAMBDA c1 : IF Len(c1.p[i].sendBuffer) > Len(c.p[i].sendBuffer)
                          THEN [c1 EXCEPT !.p[i].hung = TRUE]
                          ELSE FlushLoop(c1, i, n + 1))

ReadyListenerNoEcho(c, i, id) ==
    IF id = ReadyCheckID(i)
    THEN [c EXCEPT !.p[i].readynessCheck = FALSE, !.p[i].ready = TRUE,
                   !.p[i].sendBuffer = <<>>, !.tr[i].echoes = @ + 1]
    ELSE c

(* The callback of readyMethod without sendBuffer = []. *)
ReadyListenerKeepsBuffer(c, i, id) ==
    IF id = ReadyCheckID(i)
    THEN FlushLoop([c EXCEPT !.p[i].readynessCheck = FALSE,
                             !.p[i].ready = TRUE,
                             !.tr[i].echoes = @ + 1], i, 1)
    ELSE send(c, i, [method |-> readyMethod, params |-> id])

(* The callback of readyMethod (postis.js 127-142). *)
ReadyListener(c, i, id) ==
    IF id = ReadyCheckID(i)
    THEN Bind(FlushLoop([c EXCEPT !.p[i].readynessCheck = FALSE,
                                  !.p[i].ready = TRUE,
                                  !.tr[i].echoes = @ + 1], i, 1),
              LAMBDA c2 : IF c2.p[i].hung THEN c2
                          ELSE [c2 EXCEPT !.p[i].sendBuffer = <<>>])
    ELSE send(c, i, [method |-> readyMethod, params |-> id])

(* PostMessageTransportBackend: the callback its constructor registers for
   POSTIS_METHOD_NAME, message => this._receiveCallback(message). *)
receiveCallback == "receiveCallback"

(* The world of the Transport on the adapter of instance i: its one
   backend is that adapter. *)
PeerWorld(c, i) ==
    [t |-> c.app[i].t,
     b |-> [b \in Backends |-> [callback |-> TRUE, disposed |-> FALSE]],
     p |-> c.app[i].p, h |-> c.app[i].h,
     ev |-> noEvents, exc |-> noException, ret |-> undefined, failAt |-> 0]

(* PostMessageTransportBackend.send(message) *)
AdapterSend(c, i, message) ==
    send(c, i, [method |-> POSTIS_METHOD_NAME, params |-> message])

RECURSIVE AdapterSends(_, _, _)
AdapterSends(c, i, sent) ==
    IF sent = <<>> THEN c
    ELSE AdapterSends(AdapterSend(c, i, Head(sent).msg), i, Tail(sent))

(* The channel after the Transport on instance i ran an operation that left
   the world w: the Transport's fields, and the envelopes it handed to its
   adapter, in order. *)
AfterTransport(c, i, w) ==
    Bind(w, LAMBDA x : AdapterSends([c EXCEPT !.app[i].t = x.t,
                                              !.app[i].p = x.p,
                                              !.app[i].h = x.h],
                                    i, x.ev.sent))

(* The callbacks the application passes to postis.listen. *)
applicationCallback == "applicationCallback"
laterCallback == "laterCallback"
ApplicationCallbacks == {applicationCallback, laterCallback}

(* The calls with the adapter's callback always reaching a Transport. *)
CallCallbackAlwaysWired(c, i, callback, params) ==
    IF c.p[i].hung THEN c
    ELSE IF callback = readyListener THEN ReadyListener(c, i, params)
    ELSE IF callback = receiveCallback
    THEN AfterTransport(c, i, _onMessageReceived(PeerWorld(c, i), params))
    ELSE [c EXCEPT !.tr[i].received =
                       Append(@, [callback |-> callback, params |-> params])]

(* listenersForMethod[n].call(null, params); the adapter's callback calls
   this._receiveCallback, which does nothing until setReceiveCallback has
   replaced it. *)
CallCallback(c, i, callback, params) ==
    IF c.p[i].hung THEN c
    ELSE IF callback = readyListener THEN ReadyListener(c, i, params)
    ELSE IF callback = receiveCallback /\ c.app[i].connected
    THEN AfterTransport(c, i, _onMessageReceived(PeerWorld(c, i), params))
    ELSE [c EXCEPT !.tr[i].received =
                       Append(@, [callback |-> callback, params |-> params])]

(* The calls a loop makes, one after the other; each call is a callback
   with the params it is given. *)
RECURSIVE CallAll(_, _, _)
CallAll(c, i, calls) ==
    IF calls = <<>> THEN c
    ELSE Bind(CallCallback(c, i, Head(calls).callback, Head(calls).params),
              LAMBDA c1 : CallAll(c1, i, Tail(calls)))

(* for (i < listenersForMethod.length) listenersForMethod[i].call(null, params) *)
Dispatch(c, i, callbacks, params) ==
    CallAll(c, i, [n \in 1..Len(callbacks) |->
                      [callback |-> callbacks[n], params |-> params]])

(* The message listener without the origin check. *)
handleMessageAnyOrigin(c, i, event) ==
    IF ~Parses(event.data) THEN Ignore(c, i)
    ELSE LET data == safeJsonParse(event.data)
         IN IF ~IsNull(event.data) /\ data.postis /\ data.scope = Scope
            THEN IF c.p[i].listeners[data.method] # <<>>
                 THEN Dispatch(c, i, c.p[i].listeners[data.method], data.params)
                 ELSE [c EXCEPT !.p[i].listenBuffer[data.method] =
                                    Append(@, data.params)]
            ELSE Ignore(c, i)

(* The message listener of the window (postis.js 41-64). *)
handleMessage(c, i, event) ==
    IF ~Parses(event.data) THEN Ignore(c, i)
    ELSE IF Truthy(c.p[i].allowedOrigin) /\ event.origin # c.p[i].allowedOrigin
    THEN Ignore(c, i)
    ELSE LET data == safeJsonParse(event.data)
         IN IF ~IsNull(event.data) /\ data.postis /\ data.scope = Scope
            THEN IF c.p[i].listeners[data.method] # <<>>
                 THEN Dispatch(c, i, c.p[i].listeners[data.method], data.params)
                 ELSE [c EXCEPT !.p[i].listenBuffer[data.method] =
                                    Append(@, data.params)]
            ELSE Ignore(c, i)

(* for (i < listenersForMethod.length)
       for (j < listenBufferForMethod.length)
           listenersForMethod[i].call(null, listenBufferForMethod[j]) *)
ReplayBuffer(c, i, callbacks, buffered) ==
    CallAll(c, i, [n \in 1..(Len(callbacks) * Len(buffered)) |->
                      [callback |-> callbacks[((n - 1) \div Len(buffered)) + 1],
                       params |-> buffered[((n - 1) % Len(buffered)) + 1]]])

(* listen without delete listenBuffer[method]. *)
listenKeepsBuffer(c, i, method, callback) ==
    Bind([c EXCEPT !.p[i].listeners[method] = Append(@, callback)],
         LAMBDA c1 : ReplayBuffer(c1, i, c1.p[i].listeners[method],
                                  c1.p[i].listenBuffer[method]))

listen(c, i, method, callback) ==
    Bind([c EXCEPT !.p[i].listeners[method] = Append(@, callback)],
         LAMBDA c1 :
             [ReplayBuffer(c1, i, c1.p[i].listeners[method],
                           c1.p[i].listenBuffer[method])
                  EXCEPT !.p[i].listenBuffer[method] = <<>>])

(* ready that calls the callback whatever the liveness flag is. *)
readyInvokesAlways(c, i, callback) ==
    [c EXCEPT !.tr[i].invoked = Append(@, [callback |-> callback,
                                           ready |-> c.p[i].ready])]

(* ready(callback) (postis.js 100-106): the callback of the k-th call is k;
   timers holds the callbacks whose setTimeout is pending. *)
ready(c, i, callback) ==
    IF c.p[i].ready
    THEN [c EXCEPT !.tr[i].invoked = Append(@, [callback |-> callback,
                                                ready |-> c.p[i].ready])]
    ELSE [c EXCEPT !.p[i].timers = @ \cup {callback}]

(* destroy that leaves the liveness flag as it is. *)
destroyKeepsReady(c, i) ==
    [c EXCEPT !.p[i].readynessCheck = FALSE,
              !.p[i].attached = FALSE,
              !.p[i].phase = "destroyed"]

(* destroy without removeEventListener. *)
destroyKeepsListener(c, i) ==
    [c EXCEPT !.p[i].readynessCheck = FALSE,
              !.p[i].ready = FALSE,
              !.p[i].phase = "destroyed"]

destroy(c, i) ==
    [c EXCEPT !.p[i].readynessCheck = FALSE,
              !.p[i].ready = FALSE,
              !.p[i].attached = FALSE,
              !.p[i].phase = "destroyed"]

(* Postis(options): options.window can post messages or cannot;
   options.allowedOrigin is an origin or is absent. *)
Constructor(c, i, canPost, allowedOrigin) ==
    LET c1 == [c EXCEPT !.p[i] = [PostisInit(i) EXCEPT !.phase = "live",
                                                       !.canPost = canPost,
                                                       !.allowedOrigin = allowedOrigin,
                                                       !.attached = TRUE,
                                                       !.readynessCheck = TRUE]]
    IN listen(c1, i, readyMethod, readyListener)

CommitChannel(c) ==
    \E x \in {c} :
        /\ postis' = x.p
        /\ windows' = x.win
        /\ trace' = x.tr
        /\ peers' = x.app
        /\ UNCHANGED <<transportVars, utilVars>>

(* new PostMessageTransportBackend({postisOptions}) *)
AdapterConstructor(c, i, canPost) ==
    Bind(Constructor(c, i, canPost, undefined),
         LAMBDA x : listen(x, i, POSTIS_METHOD_NAME, receiveCallback))

(* new Transport({backend: new PostMessageTransportBackend(...)}) *)
ConnectedTransport(c, i, canPost) ==
    Bind(AdapterConstructor(c, i, canPost),
         LAMBDA x : [AfterTransport(x, i, setBackend([PeerWorld(x, i) EXCEPT
                                                         !.t = TransportInit], "b1"))
                         EXCEPT !.app[i].connected = TRUE])

(* The script of window i is running: it has not hung in the flush loop. *)
Running(i) == postis[i].phase # "none" /\ ~postis[i].hung

(* The probes of instance i not yet handled: in a window queue or in its
   own send buffer. *)
RECURSIVE CountProbes(_, _)
CountProbes(q, id) ==
    IF q = <<>> THEN 0
    ELSE (IF Head(q).data.value.method = readyMethod /\ Head(q).data.value.params = id
          THEN 1 ELSE 0) + CountProbes(Tail(q), id)

RECURSIVE CountBuffered(_, _)
CountBuffered(q, id) ==
    IF q = <<>> THEN 0
    ELSE (IF Head(q).method = readyMethod /\ Head(q).params = id
          THEN 1 ELSE 0) + CountBuffered(Tail(q), id)

InFlight(i) ==
    CountProbes(windows["A"], ReadyCheckID(i))
    + CountProbes(windows["B"], ReadyCheckID(i))
    + CountBuffered(postis["A"].sendBuffer, ReadyCheckID(i))
    + CountBuffered(postis["B"].sendBuffer, ReadyCheckID(i))

Construct(i, canPost) ==
    /\ postis[i].phase = "none"
    /\ CommitChannel(Constructor(Channel, i, canPost, undefined))

(* The script of window i creates its instance with an origin allow-list
   or without one. *)
ConstructWith(i, allowedOrigin) ==
    /\ postis[i].phase = "none"
    /\ CommitChannel(Constructor(Channel, i, TRUE, allowedOrigin))

(* The application of window i registers its callback for the messages. *)
Listen(i) ==
    /\ Running(i)
    /\ postis[i].listeners[POSTIS_METHOD_NAME] = <<>>
    /\ CommitChannel(listen(Channel, i, POSTIS_METHOD_NAME, applicationCallback))

(* What a script of any page can post to a window: a text that is not
   JSON, the text null, and message objects with or without the marker and
   with this scope or another. *)
RawMessage(marker, scope) ==
    [postis |-> marker, scope |-> scope, method |-> POSTIS_METHOD_NAME,
     params |-> String("raw")]

RawTexts ==
    {[json |-> FALSE, null |-> FALSE, value |-> RawMessage(TRUE, Scope)],
     [json |-> TRUE, null |-> TRUE, value |-> RawMessage(TRUE, Scope)]}
    \cup {JSONStringify(RawMessage(m, s)) : m \in BOOLEAN, s \in {Scope, "other"}}

(* Some script posts a text to window i. *)
Inject(i, text, origin) ==
    /\ Len(windows[i]) + Len(trace[i].received)
           + Len(postis[i].listenBuffer[POSTIS_METHOD_NAME]) < MaxInjected
    /\ CommitChannel([Channel EXCEPT !.win[i] =
                          Append(@, [data |-> text, origin |-> origin])])

(* The params, in order, that callback was called with. *)
RECURSIVE ParamsOf(_, _)
ParamsOf(received, callback) ==
    IF received = <<>> THEN <<>>
    ELSE (IF Head(received).callback = callback THEN <<Head(received).params>>
          ELSE <<>>) \o ParamsOf(Tail(received), callback)

(* The application of window i registers callback for the messages; it
   registers each of its callbacks once. *)
ListenWith(i, callback) ==
    /\ Running(i)
    /\ \A n \in 1..Len(postis[i].listeners[POSTIS_METHOD_NAME]) :
           postis[i].listeners[POSTIS_METHOD_NAME][n] # callback
    /\ CommitChannel(listen(Channel, i, POSTIS_METHOD_NAME, callback))

(* The number of calls of the callback that was registered first. *)
CallsOfFirst(i) ==
    IF postis[i].listeners[POSTIS_METHOD_NAME] = <<>> THEN 0
    ELSE Len(ParamsOf(trace[i].received, postis[i].listeners[POSTIS_METHOD_NAME][1]))

(* The peer's page posts a message of this scope with the k-th payload to
   window i. *)
Post(i, k) ==
    /\ Len(windows[i]) + Len(postis[i].listenBuffer[POSTIS_METHOD_NAME])
           + CallsOfFirst(i) < MaxInjected
    /\ CommitChannel([Channel EXCEPT !.win[i] =
           Append(@, [data |-> JSONStringify([postis |-> TRUE, scope |-> Scope,
                                              method |-> POSTIS_METHOD_NAME,
                                              params |-> Payloads[k]]),
                      origin |-> Origin(Peer(i))])])

(* The object passed as options.window gains or loses its postMessage
   function; send reads it at every call. *)
TargetWindowChanges(i, canPost) ==
    /\ Running(i)
    /\ postis[i].canPost # canPost
    /\ CommitChannel([Channel EXCEPT !.p[i].canPost = canPost])

(* The application of window i calls ready with a new callback. *)
Ready(i) ==
    /\ Running(i)
    /\ trace[i].readyCalls < MaxReadyCalls
    /\ LET c == [Channel EXCEPT !.tr[i].readyCalls = @ + 1]
       IN CommitChannel(ready(c, i, c.tr[i].readyCalls))

(* The timeout that ready set for callback fires: ready is called again. *)
Timeout(i, callback) ==
    /\ Running(i)
    /\ callback \in postis[i].timers
    /\ CommitChannel(ready([Channel EXCEPT !.p[i].timers = @ \ {callback}],
                           i, callback))

(* The readynessCheck interval fires while fewer than n probes of the
   instance are on their way. *)
TickUpTo(i, n) ==
    /\ Running(i)
    /\ postis[i].readynessCheck
    /\ InFlight(i) < n
    /\ CommitChannel(send(Channel, i, [method |-> readyMethod,
                                       params |-> ReadyCheckID(i)]))

(* The readynessCheck interval fires. *)
Tick(i) == TickUpTo(i, MaxInFlight)

(* The application (the backend adapter) sends its next message. *)
Send(i) ==
    /\ Running(i)
    /\ Len(trace[i].sentReady) < MaxSends
    /\ LET k == Len(trace[i].sentReady) + 1
           c == [Channel EXCEPT !.tr[i].sentReady = Append(@, postis[i].ready)]
       IN CommitChannel(send(c, i, [method |-> POSTIS_METHOD_NAME,
                                    params |-> Payloads[k]]))

(* The browser dispatches the next message event of window i. *)
Deliver(i) ==
    /\ windows[i] # <<>>
    /\ ~postis[i].hung
    /\ LET c == [Channel EXCEPT !.win[i] = Tail(@)]
       IN IF postis[i].attached
          THEN CommitChannel(handleMessage(c, i, Head(windows[i])))
          ELSE CommitChannel([c EXCEPT !.tr[i].lost = TRUE])

Destroy(i) ==
    /\ Running(i)
    /\ CommitChannel(destroy(Channel, i))

(* The script of window i creates its Transport on a new adapter. *)
Connect(i) ==
    /\ postis[i].phase = "none"
    /\ CommitChannel(ConnectedTransport(Channel, i, TRUE))

(* The script of window i creates an adapter and keeps it for later. *)
NewBackend(i) ==
    /\ postis[i].phase = "none"
    /\ CommitChannel(AdapterConstructor(Channel, i, TRUE))

(* The script of window i creates its Transport and calls setBackend with
   the adapter it created earlier. *)
PeerSetBackend(i) ==
    /\ Running(i)
    /\ postis[i].listeners[POSTIS_METHOD_NAME] = <<receiveCallback>>
    /\ ~peers[i].connected
    /\ CommitChannel([AfterTransport(Channel, i,
                                     setBackend([PeerWorld(Channel, i) EXCEPT
                                                    !.t = TransportInit], "b1"))
                          EXCEPT !.app[i].connected = TRUE])

(* The application of window i registers a listener on its Transport. *)
PeerOn(i, eventName, l) ==
    /\ Running(i)
    /\ peers[i].connected
    /\ \A n \in 1..Len(peers[i].t._listeners[eventName]) :
           peers[i].t._listeners[eventName][n] # l
    /\ CommitChannel(AfterTransport(Channel, i,
                                    on(PeerWorld(Channel, i), eventName, l)))

(* The application of window i sends a request through its Transport. *)
PeerSendRequest(i, d) ==
    /\ Running(i)
    /\ peers[i].connected
    /\ Len(peers[i].p) < MaxRequests
    /\ LET c == [Channel EXCEPT !.app[i].asked =
                     Append(@, [data |-> d, ready |-> postis[i].ready])]
       IN CommitChannel(AfterTransport(c, i, sendRequest(PeerWorld(c, i), d)))

NoChannel ==
    /\ postis = [i \in Instances |-> PostisInit(i)]
    /\ windows = [i \in Instances |-> <<>>]
    /\ trace = [i \in Instances |-> TraceInit]
    /\ peers = [i \in Instances |-> PeerInit]

(***************************************************************************)
(* JitsiLocalStorage (jitsi-local-storage): a wrapper that holds either    *)
(* window.localStorage or a DummyLocalStorage.  A storage is a function    *)
(* from the keys to a value or to undefined (no own property of that       *)
(* name).  No listener of the 'changed' event is registered, so emitting  *)
(* it changes nothing.                                                     *)
(***************************************************************************)
Keys == {"k1", "constructor"}
Values == {"v1", "v2"}

(* The properties a plain object {} inherits from Object.prototype. *)
ObjectPrototype == [k \in Keys |-> IF k = "constructor" THEN "function Object"
                                   ELSE undefined]

(* {} *)
EmptyObject == [k \in Keys |-> undefined]

(* object[keyName] *)
PropertyGet(object, keyName) ==
    IF object[keyName] # undefined THEN object[keyName]
    ELSE ObjectPrototype[keyName]

(* a ?? b *)
NullishCoalesce(a, b) == IF a \in {undefined, null} THEN b ELSE a

(* DummyLocalStorage.getItem: this._storage[keyName] ?? null *)
DummyGetItem(object, keyName) == NullishCoalesce(PropertyGet(object, keyName), null)

(* getItem of the browser's Storage: the value, or null for a key it does
   not hold. *)
NativeGetItem(object, keyName) == NullishCoalesce(object[keyName], null)

(* What reading window.localStorage does in this page: it returns the
   Storage, it throws, or it is undefined. *)
Access == {"storage", "throws", "undefined"}

(* new JitsiLocalStorage() in a page whose window.localStorage is empty.
   _storage names the backend in use; dummy is the content of the
   DummyLocalStorage last created, window that of window.localStorage. *)
StorageInit(access) ==
    [access |-> access,
     window |-> EmptyObject,
     dummy |-> EmptyObject,
     _storage |-> IF access = "storage" THEN "localStorage" ELSE "DummyLocalStorage",
     _localStorageDisabled |-> access # "storage"]

setLocalStorageDisabled(s, value) ==
    LET s1 == [s EXCEPT !._localStorageDisabled = value]
    IN IF value
       THEN [s1 EXCEPT !._storage = "DummyLocalStorage", !.dummy = EmptyObject]
       ELSE CASE s.access = "storage" -> [s1 EXCEPT !._storage = "localStorage"]
              [] s.access = "throws" -> s1
              [] s.access = "undefined" ->
                    [s1 EXCEPT !._storage = "DummyLocalStorage",
                               !.dummy = EmptyObject]

isLocalStorageDisabled(s) == s._localStorageDisabled

getItem(s, keyName) ==
    IF s._storage = "localStorage" THEN NativeGetItem(s.window, keyName)
    ELSE DummyGetItem(s.dummy, keyName)

setItem(s, keyName, keyValue) ==
    IF s._storage = "localStorage" THEN [s EXCEPT !.window[keyName] = keyValue]
    ELSE [s EXCEPT !.dummy[keyName] = keyValue]

removeItem(s, keyName) ==
    IF s._storage = "localStorage" THEN [s EXCEPT !.window[keyName] = undefined]
    ELSE [s EXCEPT !.dummy[keyName] = undefined]

clear(s) ==
    IF s._storage = "localStorage" THEN [s EXCEPT !.window = EmptyObject]
    ELSE [s EXCEPT !.dummy = EmptyObject]

CommitStorage(s) ==
    /\ storage' = s
    /\ UNCHANGED <<transportVars, channelVars, analytics>>

SetItem(keyName, keyValue) == CommitStorage(setItem(storage, keyName, keyValue))
RemoveItem(keyName) == CommitStorage(removeItem(storage, keyName))
Clear == CommitStorage(clear(storage))
SetLocalStorageDisabled(value) ==
    CommitStorage(setLocalStorageDisabled(storage, value))

(***************************************************************************)
(* AnalyticsCacheAdapater (src/analytics/AnalyticsCacheAdapater.js).  The  *)
(* k-th event the application sends is the number k.  _cache is an array   *)
(* or null: truthy tells which, events is the array.  delivered[h] lists   *)
(* the events handler h was called with, exc the exception the last call   *)
(* threw, sent the number of sendEvent calls so far.                       *)
(***************************************************************************)
MAX_CACHE_SIZE == 100

AnalyticsHandlers == {"h1", "h2"}
HandlerLists == {<<>>, <<"h1">>, <<"h1", "h2">>, <<"h2", "h1", "h2">>}

NotIterableTypeError == "TypeError: this.analyticsHandlers is not iterable"

nullCache == [truthy |-> FALSE, events |-> <<>>]

AnalyticsInit ==
    [_disposed |-> FALSE,
     _analyticsHandlers |-> <<>>,
     _cache |-> [truthy |-> TRUE, events |-> <<>>],
     delivered |-> [h \in AnalyticsHandlers |-> <<>>],
     exc |-> noException,
     ret |-> undefined,
     op |-> "constructor",
     sent |-> 0]

(* new Set(handlers) *)
RECURSIVE NewSet(_)
NewSet(seq) ==
    IF seq = <<>> THEN <<>>
    ELSE SetAdd(NewSet(SubSeq(seq, 1, Len(seq) - 1)), seq[Len(seq)])

(* A cache that grows without limit. *)
_maybeCacheEventUnbounded(a, event) ==
    IF a._cache.truthy
    THEN [a EXCEPT !._cache.events = Append(@, event), !.ret = TRUE]
    ELSE [a EXCEPT !.ret = FALSE]

_maybeCacheEvent(a, event) ==
    IF a._cache.truthy
    THEN LET pushed == Append(a._cache.events, event)
         IN [a EXCEPT !._cache.events = IF Len(pushed) > MAX_CACHE_SIZE
                                        THEN Tail(pushed) ELSE pushed,
                      !.ret = TRUE]
    ELSE [a EXCEPT !.ret = FALSE]

_formatEvent(event) == event

(* The properties of an instance; this.analyticsHandlers is not one of
   them (the handlers are in this._analyticsHandlers), so its value is
   undefined and for...of over it throws before any handler is called. *)
InstanceProperties == {"_disposed", "_analyticsHandlers", "_cache"}

RECURSIVE ForOfHandlers(_, _, _)
ForOfHandlers(a, handlers, formattedEvent) ==
    IF handlers = <<>> THEN a
    ELSE ForOfHandlers([a EXCEPT !.delivered[Head(handlers)] =
                            Append(@, formattedEvent)],
                       Tail(handlers), formattedEvent)

_sendEvent(a, event) ==
    IF a.exc # noException THEN a
    ELSE Bind(_maybeCacheEvent(a, event),
              LAMBDA a1 :
                  IF a1.ret THEN a1
                  ELSE IF "analyticsHandlers" \notin InstanceProperties
                  THEN [a1 EXCEPT !.exc = NotIterableTypeError]
                  ELSE ForOfHandlers(a1, a1._analyticsHandlers, _formatEvent(event)))

(* cache.forEach(event => this._sendEvent(event)) *)
RECURSIVE ForEachCached(_, _)
ForEachCached(a, cache) ==
    IF cache = <<>> \/ a.exc # noException THEN a
    ELSE ForEachCached(_sendEvent(a, Head(cache)), Tail(cache))

setAnalyticsHandlers(a, handlers) ==
    IF a._disposed THEN a
    ELSE LET cache == a._cache
             a1 == [a EXCEPT !._analyticsHandlers = NewSet(handlers),
                             !._cache = nullCache]
         IN IF cache.truthy THEN ForEachCached(a1, cache.events) ELSE a1

analyticsDispose(a) ==
    Bind(setAnalyticsHandlers(a, <<>>),
         LAMBDA a1 : IF a1.exc # noException THEN a1
                     ELSE [a1 EXCEPT !._disposed = TRUE])

analyticsSendEvent(a, event) ==
    IF a._disposed THEN a ELSE _sendEvent(a, event)

(* A call by the application starts with no exception in flight. *)
Call(a, op) == [a EXCEPT !.exc = noException, !.ret = undefined, !.op = op]

CommitAnalytics(a) ==
    /\ analytics' = a
    /\ UNCHANGED <<transportVars, channelVars, storage>>

AnalyticsSendEvent ==
    /\ analytics.sent < MaxEvents
    /\ LET k == analytics.sent + 1
       IN CommitAnalytics(analyticsSendEvent(
              [Call(analytics, "sendEvent") EXCEPT !.sent = k], k))

SetAnalyticsHandlers(handlers) ==
    CommitAnalytics(setAnalyticsHandlers(Call(analytics, "setAnalyticsHandlers"),
                                         handlers))

AnalyticsDispose ==
    CommitAnalytics(analyticsDispose(Call(analytics, "dispose")))

NoUtilities ==
    /\ storage = StorageInit("storage")
    /\ analytics = AnalyticsInit

(***************************************************************************)
(* One Transport over backends b1, b2: the operations an application and   *)
(* the backends can invoke, one action per call.                           *)
(***************************************************************************)
noMessage == Envelope("", undefined, 0, undefined, undefined)

(* The state after a call op that left the world w; last records the call
   (with its event name, or the type and id of the envelope received and,
   when a response handler ran, the result and error it was given), what it
   returned or threw, and the calls it made to application code and to the
   backend. *)
Registered == Len(transport._listeners["request"]) + Len(transport._listeners["event"])

Commit(w, op, name, message) ==
    /\ transport' = w.t
    /\ backend' = w.b
    /\ promises' = w.p
    /\ history' = [w.h EXCEPT !.sinceDispose =
                       \/ op = "receive" /\ history.sinceDispose
                       \/ /\ op = "dispose"
                          /\ transport._responseHandlers # {}
                          /\ Registered > 0
                          /\ transport._backend # null]
    /\ last' = [op |-> op, name |-> name, type |-> message.type, id |-> message.id,
                result |-> IF w.ev.handled # <<>> THEN message.result ELSE undefined,
                error |-> IF w.ev.handled # <<>> THEN message.error ELSE undefined,
                ev |-> w.ev, exc |-> w.exc,
                ret |-> IF Thrown(w) THEN undefined ELSE w.ret]
    /\ UNCHANGED <<channelVars, utilVars>>

InboundResponses ==
    {Envelope(RESPONSE, undefined, id, r, e) :
        id \in 0..(MaxRequests + 1), r \in ResultValues, e \in ErrorValues}
InboundRequests ==
    {Envelope(REQUEST, "d1", 1, undefined, undefined),
     Envelope(REQUEST, "d2", 2, undefined, undefined)}
InboundEvents ==
    {Envelope(EVENT, "d1", 0, undefined, undefined),
     Envelope(undefined, "d2", 0, undefined, undefined)}

(* Which backend send of a call throws: none, the first or the second. *)
FailAt == 0..2

CanEmit == history.entries < MaxEmissions

On(eventName, listener, failAt) ==
    /\ \/ Registered < MaxListeners
       \/ \E i \in 1..Len(transport._listeners[eventName]) :
              transport._listeners[eventName][i] = listener
    /\ Commit(on(World(failAt), eventName, listener), "on", eventName, noMessage)

RemoveListener(eventName, listener) ==
    Commit(removeListener(World(0), eventName, listener), "removeListener",
           eventName, noMessage)

RemoveAllListeners(eventName) ==
    Commit(removeAllListeners(World(0), eventName), "removeAllListeners",
           eventName, noMessage)

Emit(eventName, data, failAt) ==
    /\ CanEmit
    /\ Commit(emit(World(failAt), eventName, Args(data, noResponder)), "emit",
              eventName, noMessage)

SendEvent(data, failAt) ==
    Commit(sendEvent(World(failAt), data), "sendEvent", "", noMessage)

SendRequest(data, failAt) ==
    /\ Len(promises) < MaxRequests
    /\ Commit(sendRequest(World(failAt), data), "sendRequest", "", noMessage)

SetBackend(b) ==
    Commit(setBackend(World(0), b), "setBackend", "", noMessage)

Dispose ==
    Commit(dispose(World(0)), "dispose", "", noMessage)

(* The world in which backend b hands over message: for a Request, via
   names b. *)
Arrival(w, b, message) ==
    IF message.type = REQUEST THEN [w EXCEPT !.ev.via = b] ELSE w

(* Backend b hands an inbound envelope to the receive callback it holds. *)
Receive(b, message, failAt) ==
    /\ backend[b].callback
    /\ message.type # RESPONSE => CanEmit
    /\ Commit(_onMessageReceived(Arrival(World(failAt), b, message), message),
              "receive", "", message)

TransportConstructed ==
    /\ transport = TransportInit
    /\ backend = [b \in Backends |-> BackendInit]
    /\ promises = <<>>
    /\ history = HistoryInit
    /\ last = [op |-> "constructor", name |-> "", type |-> "", id |-> 0,
               result |-> undefined, error |-> undefined,
               ev |-> noEvents, exc |-> noException, ret |-> undefined]

InitTransport ==
    /\ TransportConstructed
    /\ NoChannel
    /\ NoUtilities

InitChannel ==
    /\ TransportConstructed
    /\ NoChannel
    /\ NoUtilities

(* The two instances run the same code: the application of A sends, B is
   its peer. *)
NextChannel ==
    \/ \E i \in Instances, canPost \in BOOLEAN : Construct(i, canPost)
    \/ \E i \in Instances : Tick(i)
    \/ Send("A")
    \/ \E i \in Instances : Deliver(i)
    \/ \E i \in Instances : Destroy(i)

SpecChannel == InitChannel /\ [][NextChannel]_vars

(* The handshake alone.  Each window's script runs its constructor, an
   active interval keeps firing, and the browser dispatches every message
   event that was posted. *)
NextHandshake ==
    \/ \E i \in Instances, canPost \in BOOLEAN : Construct(i, canPost)
    \/ \E i \in Instances : Tick(i)
    \/ \E i \in Instances : Deliver(i)
    \/ \E i \in Instances : Destroy(i)

FairHandshake ==
    \A i \in Instances :
        /\ WF_vars(\E canPost \in BOOLEAN : Construct(i, canPost))
        /\ WF_vars(Tick(i))
        /\ WF_vars(Deliver(i))

SpecHandshake == InitChannel /\ [][NextHandshake]_vars /\ FairHandshake

(* The channel with an interval that fires again before the echo of the
   previous probe is back: an instance gets its own readyCheckID back more
   than once. *)
NextEchoes ==
    \/ \E i \in Instances, canPost \in BOOLEAN : Construct(i, canPost)
    \/ \E i \in Instances : TickUpTo(i, MaxInFlight + 1)
    \/ Send("A")
    \/ \E i \in Instances : Deliver(i)
    \/ \E i \in Instances : Destroy(i)

SpecEchoes == InitChannel /\ [][NextEchoes]_vars

(* Inbound messages: texts posted by the page of the peer and by other
   pages reach the window of instance A, created with or without an origin
   allow-list; A's probes go to the window of B, where nothing listens. *)
NextInbound ==
    \/ \E o \in {undefined, Origin("B")} : ConstructWith("A", o)
    \/ Listen("A")
    \/ \E text \in RawTexts, o \in {Origin("B"), foreignOrigin} : Inject("A", text, o)
    \/ Tick("A")
    \/ \E i \in Instances : Deliver(i)

SpecInbound == InitChannel /\ [][NextInbound]_vars

(* Waiting for the handshake: the application of B calls ready before or
   after B is Confirmed, and may destroy B.  A timeout that was set fires,
   an active interval keeps firing, and the browser dispatches every
   message event that was posted. *)
NextReady ==
    \/ \E i \in Instances : Construct(i, TRUE)
    \/ \E i \in Instances : Tick(i)
    \/ \E i \in Instances : Deliver(i)
    \/ Ready("B")
    \/ \E callback \in 1..MaxReadyCalls : Timeout("B", callback)
    \/ Destroy("B")

FairReady ==
    /\ \A i \in Instances : WF_vars(Tick(i)) /\ WF_vars(Deliver(i))
    /\ \A callback \in 1..MaxReadyCalls : WF_vars(Timeout("B", callback))

SpecReady == InitChannel /\ [][NextReady]_vars /\ FairReady

(* The end of an instance: A sends, listens and waits for the handshake,
   the peer's page posts to it, and A is destroyed at any moment, after
   which its application goes on calling it. *)
NextDestroy ==
    \/ \E i \in Instances : Construct(i, TRUE)
    \/ \E i \in Instances : Tick(i)
    \/ \E i \in Instances : Deliver(i)
    \/ Send("A")
    \/ ListenWith("A", applicationCallback)
    \/ Post("A", 1)
    \/ Ready("A")
    \/ \E callback \in 1..MaxReadyCalls : Timeout("A", callback)
    \/ Destroy("A")

SpecDestroy == InitChannel /\ [][NextDestroy]_vars

(* The flush: A's target window can post at some moments and not at
   others, so that probes and messages are buffered and the echo of a
   probe that was posted comes back at any moment. *)
NextFlush ==
    \/ \E i \in Instances : Construct(i, TRUE)
    \/ \E canPost \in BOOLEAN : TargetWindowChanges("A", canPost)
    \/ \E i \in Instances : Tick(i)
    \/ Send("A")
    \/ \E i \in Instances : Deliver(i)

SpecFlush == InitChannel /\ [][NextFlush]_vars

(* An adapter wired late: the script of A creates its adapter and wires it
   to a Transport at a later moment; T2 on B sends requests.  Scripts run,
   intervals fire and posted events are dispatched. *)
NextEarly ==
    \/ NewBackend("A")
    \/ PeerSetBackend("A")
    \/ Connect("B")
    \/ \E d \in Data : PeerSendRequest("B", d)
    \/ \E i \in Instances : Tick(i)
    \/ \E i \in Instances : Deliver(i)

FairEarly ==
    /\ WF_vars(NewBackend("A"))
    /\ WF_vars(PeerSetBackend("A"))
    /\ WF_vars(Connect("B"))
    /\ \A i \in Instances : WF_vars(Tick(i)) /\ WF_vars(Deliver(i))

SpecEarly == InitChannel /\ [][NextEarly]_vars /\ FairEarly

(* Late listeners: payloads reach the window of instance A before and
   after the application registers its callbacks, in any order. *)
NextReplay ==
    \/ Construct("A", TRUE)
    \/ \E callback \in ApplicationCallbacks : ListenWith("A", callback)
    \/ \E k \in 1..2 : Post("A", k)
    \/ Tick("A")
    \/ \E i \in Instances : Deliver(i)

SpecReplay == InitChannel /\ [][NextReplay]_vars

(* Two Transports on a pair of adapters: T1 on A answers requests, T2 on B
   sends them.  Scripts run, intervals fire and posted events are
   dispatched. *)
NextPair ==
    \/ \E i \in Instances : Connect(i)
    \/ PeerOn("A", "request", "respond")
    \/ \E d \in Data : PeerSendRequest("B", d)
    \/ \E i \in Instances : Tick(i)
    \/ \E i \in Instances : Deliver(i)

FairPair ==
    /\ WF_vars(PeerOn("A", "request", "respond"))
    /\ \A i \in Instances :
           /\ WF_vars(Connect(i))
           /\ WF_vars(Tick(i))
           /\ WF_vars(Deliver(i))

SpecPair == InitChannel /\ [][NextPair]_vars /\ FairPair

(* The local storage of a page: the application reads, writes and switches
   the backend; window.localStorage is accessible, throws or is missing. *)
InitStorage ==
    /\ TransportConstructed
    /\ NoChannel
    /\ \E access \in Access : storage = StorageInit(access)
    /\ analytics = AnalyticsInit

NextStorage ==
    \/ \E k \in Keys, v \in Values : SetItem(k, v)
    \/ \E k \in Keys : RemoveItem(k)
    \/ Clear
    \/ \E value \in BOOLEAN : SetLocalStorageDisabled(value)

SpecStorage == InitStorage /\ [][NextStorage]_vars

(* The analytics adapter: the application sends events, sets the handlers
   and disposes. *)
NextAnalytics ==
    \/ AnalyticsSendEvent
    \/ \E handlers \in HandlerLists : SetAnalyticsHandlers(handlers)
    \/ AnalyticsDispose

SpecAnalytics == InitTransport /\ [][NextAnalytics]_vars

(* Requests and responses: the application sends, swaps the backend and
   disposes; the backends deliver Response envelopes. *)
NextRequests ==
    \/ \E d \in Data, f \in 0..1 : SendRequest(d, f)
    \/ \E d \in Data, f \in 0..1 : SendEvent(d, f)
    \/ \E b \in Backends : SetBackend(b)
    \/ Dispose
    \/ \E b \in Backends, m \in InboundResponses : Receive(b, m, 0)

SpecRequests == InitTransport /\ [][NextRequests]_vars

(* Listeners and the backlog: the application registers and removes
   listeners and emits; the backends deliver Request and Event envelopes. *)
NextListeners ==
    \/ \E n \in EventNames, l \in Listeners \ {"respond"}, f \in FailAt : On(n, l, f)
    \/ \E n \in EventNames, l \in Listeners \ {"respond"} : RemoveListener(n, l)
    \/ \E n \in EventNames \cup {undefined} : RemoveAllListeners(n)
    \/ \E n \in EventNames, d \in Data, f \in FailAt : Emit(n, d, f)
    \/ SetBackend("b1")
    \/ Dispose
    \/ \E m \in InboundRequests \cup InboundEvents, f \in FailAt :
           Receive("b1", m, f)

SpecListeners == InitTransport /\ [][NextListeners]_vars

(* The backlog and the responders: either backend delivers Requests and
   Events, also after it was replaced or disposed; the application
   registers listeners that claim, ignore or answer, swaps the backend and
   disposes. *)
NextBacklog ==
    \/ \E n \in EventNames, l \in Listeners : On(n, l, 0)
    \/ \E b \in Backends : SetBackend(b)
    \/ Dispose
    \/ \E b \in Backends, m \in InboundRequests \cup InboundEvents :
           Receive(b, m, 0)

SpecBacklog == InitTransport /\ [][NextBacklog]_vars

(* The whole life of a Transport over one backend: requests, listeners,
   dispose, and inbound envelopes of every type. *)
NextLifecycle ==
    \/ SendRequest("d1", 0)
    \/ \E n \in EventNames, l \in {"claim", "respondOnly"} : On(n, l, 0)
    \/ SetBackend("b1")
    \/ Dispose
    \/ \E m \in InboundResponses \cup InboundRequests \cup InboundEvents :
           Receive("b1", m, 0)

SpecLifecycle == InitTransport /\ [][NextLifecycle]_vars

(***************************************************************************)
(* Properties of the request/response mechanism (SpecRequests).            *)
(***************************************************************************)
Handlers == transport._responseHandlers
Backlog == transport._unprocessedMessages

(* Request k is pending: its promise is unsettled and the entry of its id is
   in the pending-request table. *)
Awaited(k, id) ==
    /\ promises[k].id = id
    /\ promises[k].state = "pending"
    /\ MapHas(Handlers, id)

(* Nothing of the Transport changed in this step, and the call neither
   called application code nor the backend. *)
NoEffect ==
    /\ transport' = transport
    /\ promises' = promises
    /\ backend' = backend
    /\ history'.requestIds = history.requestIds
    /\ history'.entries = history.entries
    /\ last'.ev = noEvents
    /\ last'.exc = noException

(* C3: a Response carrying the id of a pending request settles the promise
   of that request: fulfilled with result when result is defined, else
   rejected with error when error is defined, else rejected with
   'Unexpected response format!'. *)
C3_ResponseSettlesPromise ==
    [][\A b \in Backends, m \in InboundResponses, k \in 1..Len(promises) :
          (Receive(b, m, 0) /\ Awaited(k, m.id)) =>
              IF m.result # undefined
              THEN promises'[k].state = "fulfilled" /\ promises'[k].value = m.result
              ELSE IF m.error # undefined
              THEN promises'[k].state = "rejected" /\ promises'[k].value = m.error
              ELSE /\ promises'[k].state = "rejected"
                   /\ promises'[k].value = UnexpectedFormatError]_vars

(* A response with a defined but falsy result has fulfilled a promise, and
   a response with neither field has rejected one. *)
W_C3 ==
    /\ last.op = "receive"
    /\ \E k \in 1..Len(promises) :
           promises[k].state = "fulfilled" /\ promises[k].value = "0"
    /\ \E k \in 1..Len(promises) :
           promises[k].state = "rejected" /\ promises[k].value = UnexpectedFormatError

(* The promise is rejected with 'Unexpected response format!'. *)
RejectedAsMalformed(promise) ==
    promise.state = "rejected" /\ promise.value = UnexpectedFormatError

(* C20, as stated: a Response for a pending request is well-formed only if
   exactly one of result and error is defined; any other, one carrying both
   included, rejects the promise with 'Unexpected response format!'. *)
C20_ExactlyOneFieldOrMalformed ==
    [][\A b \in Backends, m \in InboundResponses, k \in 1..Len(promises) :
          (/\ last'.op = "receive" /\ last'.id = m.id
           /\ Awaited(k, m.id)
           /\ Receive(b, m, 0)) =>
              ((m.result # undefined) = (m.error # undefined)
                   => RejectedAsMalformed(promises'[k]))]_vars

(* C20: a Response for a pending request is treated as malformed, and
   rejects the promise with 'Unexpected response format!', exactly when
   neither result nor error is defined; one carrying both fulfils the
   promise with result, and error is not looked at. *)
C20_MalformedIffNeitherField ==
    [][\A b \in Backends, m \in InboundResponses, k \in 1..Len(promises) :
          (/\ last'.op = "receive" /\ last'.id = m.id
           /\ Awaited(k, m.id)
           /\ Receive(b, m, 0)) =>
              /\ RejectedAsMalformed(promises'[k])
                     <=> (m.result = undefined /\ m.error = undefined)
              /\ (m.result # undefined /\ m.error # undefined) =>
                     /\ promises'[k].state = "fulfilled"
                     /\ promises'[k].value = m.result]_vars

(* A Response carrying both result and error has fulfilled the promise of
   its request with result. *)
W_C20 ==
    /\ last.op = "receive"
    /\ last.type = RESPONSE
    /\ last.result # undefined
    /\ last.error # undefined
    /\ last.ev.handled # <<>>
    /\ \A n \in 1..Len(last.ev.handled) :
           /\ promises[last.ev.handled[n]].state = "fulfilled"
           /\ promises[last.ev.handled[n]].value = last.result

(* C4: the ids put on the Request envelopes handed to a backend are
   1, 2, 3, ... in call order, whatever send failures, setBackend and
   dispose calls came in between. *)
C4_RequestIdsCountUp ==
    \A i \in 1..Len(history.requestIds) : history.requestIds[i] = i

(* The last request went out after a send that threw and after a backend
   was disposed. *)
W_C4 ==
    /\ last.op = "sendRequest"
    /\ Len(history.requestIds) = MaxRequests
    /\ \E k \in 1..Len(promises) : promises[k].value = SendError
    /\ \E b \in Backends : backend[b].disposed
    /\ transport._backend # null

(* C5: a Response settles the promise of the pending request whose id it
   carries and leaves every other promise as it was. *)
C5_ResponseSettlesOnlyItsRequest ==
    [][\A b \in Backends, m \in InboundResponses :
          Receive(b, m, 0) =>
              \A k \in 1..Len(promises) :
                  IF Awaited(k, m.id)
                  THEN promises'[k].state # "pending"
                  ELSE promises'[k] = promises[k]]_vars

(* The second request was answered while the first is still pending. *)
W_C5 ==
    /\ last.op = "receive"
    /\ last.id = 2
    /\ Len(promises) >= 2
    /\ promises[1].id = 1 /\ promises[1].state = "pending" /\ MapHas(Handlers, 1)
    /\ promises[2].id = 2 /\ promises[2].state = "fulfilled"

(* C6: a Response whose id has an entry in the pending-request table runs
   the handler of that entry once and removes the entry, leaving the other
   entries; a Response whose id has no entry (an unknown id, or a request
   already answered) runs nothing and changes nothing. *)
C6_EntryConsumedOnce ==
    [][\A b \in Backends, m \in InboundResponses :
          Receive(b, m, 0) =>
              IF MapHas(Handlers, m.id)
              THEN /\ last'.ev.handled = <<MapGet(Handlers, m.id)>>
                   /\ transport'._responseHandlers =
                          {e \in Handlers : e.id # m.id}
              ELSE NoEffect]_vars

(* A second Response for an answered request was dropped. *)
W_C6 ==
    /\ last.op = "receive"
    /\ last.type = RESPONSE
    /\ last.ev = noEvents
    /\ \E k \in 1..Len(promises) :
           promises[k].id = last.id /\ promises[k].state = "fulfilled"

(* C10: without a backend sendEvent does nothing, and sendRequest returns a
   promise rejected with 'No transport backend defined!' and leaves the
   Transport as it was: the request-ID counter and the pending-request
   table are unchanged and nothing is sent. *)
C10_NoBackendNoEffect ==
    [][transport._backend = null =>
          /\ \A d \in Data, f \in 0..1 : SendEvent(d, f) => NoEffect
          /\ \A d \in Data, f \in 0..1 :
                 SendRequest(d, f) =>
                     /\ transport' = transport
                     /\ backend' = backend
                     /\ history'.requestIds = history.requestIds
                     /\ last'.ev = noEvents
                     /\ last'.ret = "promise"
                     /\ promises' = Append(promises,
                            [state |-> "rejected", value |-> NoBackendError,
                             id |-> 0])]_vars

(* sendRequest was called on a Transport that lost its backend after an
   earlier request. *)
W_C10 ==
    /\ last.op = "sendRequest"
    /\ transport._backend = null
    /\ transport._requestID = 1
    /\ promises[Len(promises)].value = NoBackendError

(* C11: when the backend's send throws inside sendRequest, the entry just
   registered is removed again and every other entry stays, the promise
   returned is rejected with the error thrown, and sendRequest itself
   returns normally. *)
C11_SendFailureRollsBack ==
    [][\A d \in Data :
          (SendRequest(d, 1) /\ transport._backend # null) =>
              /\ transport'._responseHandlers = Handlers
              /\ ~MapHas(transport'._responseHandlers, transport'._requestID)
              /\ transport'._requestID = transport._requestID + 1
              /\ promises' = Append(promises,
                     [state |-> "rejected", value |-> SendError,
                      id |-> transport'._requestID])
              /\ last'.exc = noException
              /\ last'.ret = "promise"]_vars

(* The second request failed in send while the first was pending. *)
W_C11 ==
    /\ last.op = "sendRequest"
    /\ Len(last.ev.sent) = 1 /\ last.ev.sent[1].threw
    /\ Len(promises) = 2
    /\ promises[1].state = "pending"
    /\ promises[2].state = "rejected" /\ promises[2].value = SendError
    /\ Handlers = {[id |-> 1, promise |-> 1]}

(* C21: setBackend(b) disposes the backend set before, if any, exactly once
   and before it hands b the receive callback; and after any sequence of
   setBackend and dispose calls a backend that was handed to the Transport
   and is not disposed is the current one. *)
C21_SwapDisposesPrevious ==
    [][/\ \A b \in Backends :
              (last'.op = "setBackend" /\ SetBackend(b)) =>
                  /\ last'.ev.disposed = IF transport._backend = null THEN <<>>
                                         ELSE <<transport._backend>>
                  /\ last'.ev.wired =
                         <<[backend |-> b, after |-> Len(last'.ev.disposed)]>>
                  /\ transport'._backend = b
       /\ \A b \in Backends :
              (backend'[b].callback /\ ~backend'[b].disposed) =>
                  transport'._backend = b]_vars

(* b2 has replaced b1: b1 was disposed in that call, before b2 was wired,
   and b2 is the only backend not disposed. *)
W_C21 ==
    /\ last.op = "setBackend"
    /\ last.ev.disposed = <<"b1">>
    /\ last.ev.wired = <<[backend |-> "b2", after |-> 1]>>
    /\ transport._backend = "b2"
    /\ backend["b1"].disposed
    /\ ~backend["b2"].disposed

(***************************************************************************)
(* Properties of listeners and the backlog (SpecListeners).                *)
(***************************************************************************)
RECURSIVE CountCalls(_, _)
CountCalls(calls, eid) ==
    IF calls = <<>> THEN 0
    ELSE (IF Head(calls).eid = eid THEN 1 ELSE 0) + CountCalls(Tail(calls), eid)

(* C7: when a listener that returns true is registered with on(name, fn),
   every backlog entry emitted under name is passed to fn exactly once, with
   the arguments of its emission, and leaves the backlog; and an entry that
   has left the backlog never comes back and is never passed to a listener
   again: a call replays only an entry of the backlog, and the backlog
   gains only entries of new emissions. *)
C7_ClaimedEntryReplayedOnce ==
    [][/\ \A n \in EventNames, f \in FailAt :
              On(n, "claim", f) =>
                  \A i \in 1..Len(Backlog) :
                      Backlog[i].name = n =>
                          /\ CountCalls(last'.ev.calls, Backlog[i].eid) = 1
                          /\ \E c \in 1..Len(last'.ev.calls) :
                                 /\ last'.ev.calls[c].eid = Backlog[i].eid
                                 /\ last'.ev.calls[c].args = Backlog[i].args
                                 /\ last'.ev.calls[c].listener = "claim"
                          /\ \A j \in 1..Len(transport'._unprocessedMessages) :
                                 transport'._unprocessedMessages[j].eid # Backlog[i].eid
       /\ \A c \in 1..Len(last'.ev.calls) :
              last'.ev.calls[c].eid # 0 =>
                  \E i \in 1..Len(Backlog) : Backlog[i].eid = last'.ev.calls[c].eid
       /\ \A j \in 1..Len(transport'._unprocessedMessages) :
              \/ \E i \in 1..Len(Backlog) : Backlog[i] = transport'._unprocessedMessages[j]
              \/ transport'._unprocessedMessages[j].eid > history.entries]_vars

(* on(name, fn) has replayed an entry emitted under name to fn, which
   claimed it, and the backlog is empty. *)
W_C7 ==
    /\ last.op = "on"
    /\ Backlog = <<>>
    /\ \E c \in 1..Len(last.ev.calls) :
           /\ last.ev.calls[c].listener = "claim"
           /\ last.ev.calls[c].eid # 0
           /\ last.ev.calls[c].name = last.name
           /\ last.ev.calls[c].ret = "true"

(* What emit(name, args) does when no listener throws: it calls every
   listener registered for name, in registration order; if one of them
   returned a truthy value the backlog is unchanged, and otherwise the
   backlog gains one entry holding args. *)
EmitEffect(n, args) ==
    LET calls == last'.ev.calls
        ls == transport._listeners[n]
    IN /\ Len(calls) = Len(ls)
       /\ \A i \in 1..Len(ls) :
              /\ calls[i].listener = ls[i]
              /\ calls[i].args = args
              /\ calls[i].eid = 0
       /\ IF \E i \in 1..Len(calls) : Truthy(calls[i].ret)
          THEN transport'._unprocessedMessages = Backlog
          ELSE transport'._unprocessedMessages =
                   Append(Backlog, [eid |-> history.entries + 1, name |-> n,
                                    args |-> args])

(* C8: emit(name, args) calls every listener registered for name, in
   registration order, whatever the earlier ones returned; it returns a
   truthy value and leaves the backlog alone if one of them returned a
   truthy value, and otherwise returns false and adds one backlog entry
   holding args.  (A listener that throws ends the emit.) *)
C8_EmitCallsEveryListener ==
    [][/\ \A n \in EventNames, d \in Data, f \in FailAt :
              (Emit(n, d, f) /\ last'.exc = noException) =>
                  /\ EmitEffect(n, Args(d, noResponder))
                  /\ IF \E i \in 1..Len(last'.ev.calls) : Truthy(last'.ev.calls[i].ret)
                     THEN Truthy(last'.ret)
                     ELSE last'.ret = "false"
       /\ \A m \in InboundRequests, f \in FailAt :
              (Receive("b1", m, f) /\ last'.exc = noException) =>
                  EmitEffect("request", Args(m.data, m.id))
       /\ \A m \in InboundEvents, f \in FailAt :
              (Receive("b1", m, f) /\ last'.exc = noException) =>
                  EmitEffect("event", Args(m.data, noResponder))]_vars

(* emit has called a listener that returned a falsy value and then one that
   returned true, and has returned true. *)
W_C8 ==
    /\ last.op = "emit"
    /\ Len(last.ev.calls) = 2
    /\ ~Truthy(last.ev.calls[1].ret)
    /\ last.ev.calls[2].ret = "true"
    /\ last.ret = "true"

(* The step sent a Response carrying id. *)
ResponseSent(id) ==
    \E s \in 1..Len(last'.ev.sent) :
        /\ last'.ev.sent[s].msg.type = RESPONSE
        /\ last'.ev.sent[s].msg.id = id

(* C15, as stated: a Request that no listener claimed when it was
   dispatched is dropped: whatever listener is registered afterwards, no
   Response carrying its id is sent. *)
C15_UnclaimedRequestNeverAnswered ==
    [][\A n \in EventNames, l \in Listeners, f \in FailAt :
           (last'.op = "on" /\ last'.name = n /\ On(n, l, f)) =>
               \A i \in 1..Len(Backlog) :
                   Backlog[i].args.responder # noResponder =>
                       ~ResponseSent(Backlog[i].args.responder)]_vars

(* C15: a Request that no listener claimed when it was dispatched is kept
   in the backlog with its responder; an on() that completes afterwards
   passes it to the new listener, whatever the event name, and a Response
   carrying its id, with what the listener answered, is sent exactly when
   that listener calls the responder. *)
C15_UnclaimedRequestAnsweredOnReplay ==
    [][\A n \in EventNames, l \in Listeners, f \in FailAt :
           (/\ last'.op = "on" /\ last'.name = n /\ last'.exc = noException
            /\ On(n, l, f)) =>
               \A i \in 1..Len(Backlog) :
                   Backlog[i].args.responder # noResponder =>
                       /\ \E c \in 1..Len(last'.ev.calls) :
                              /\ last'.ev.calls[c].eid = Backlog[i].eid
                              /\ last'.ev.calls[c].listener = l
                              /\ last'.ev.calls[c].args = Backlog[i].args
                       /\ ResponseSent(Backlog[i].args.responder)
                              <=> l \in {"respond", "respondOnly"}
                       /\ l \in {"respond", "respondOnly"} =>
                              \E s \in 1..Len(last'.ev.sent) :
                                  last'.ev.sent[s].msg =
                                      Envelope(RESPONSE, undefined,
                                               Backlog[i].args.responder,
                                               Backlog[i].args.data, undefined)]_vars

(* A Request went unclaimed to the backlog; a listener registered later was
   passed it and answered it: the Response carries the Request's id. *)
W_C15 ==
    /\ last.op = "on"
    /\ last.exc = noException
    /\ \E c \in 1..Len(last.ev.calls), s \in 1..Len(last.ev.sent) :
           /\ last.ev.calls[c].eid # 0
           /\ last.ev.calls[c].listener = "respondOnly"
           /\ last.ev.calls[c].args.responder # noResponder
           /\ last.ev.sent[s].msg.type = RESPONSE
           /\ last.ev.sent[s].msg.id = last.ev.calls[c].args.responder
           /\ ~last.ev.sent[s].threw

(***************************************************************************)
(* Properties of dispose (SpecLifecycle).                                  *)
(***************************************************************************)
(* C9: after dispose() on a Transport with pending requests, listeners and
   a backend, the backend's dispose has been called exactly once, and an
   inbound envelope the disposed backend delivers afterwards has no effect:
   no listener or response handler runs, nothing is sent, and the
   pending-request table, the listener registry and the backlog stay
   empty. *)
C9_DisposedTransportIsInert ==
    history.sinceDispose =>
        /\ last.op = "dispose" => Len(last.ev.disposed) = 1
        /\ last.op = "receive" => last.ev = [noEvents EXCEPT !.via = last.ev.via]
        /\ Handlers = {}
        /\ Registered = 0
        /\ Backlog = <<>>

(***************************************************************************)
(* The channel primitive                                                   *)
(***************************************************************************)
SentBeforeConfirmation(i, k) == ~trace[i].sentReady[k]

(* C1: the messages an instance was given before it was Confirmed are
   posted in the order they were given, and every one of them is posted
   before any message given after the confirmation. *)
C1_BufferedSendsFlushInOrder ==
    \A i \in Instances :
        LET posted == [x \in 1..Len(trace[i].posted) |->
                          PayloadNumber(trace[i].posted[x])]
        IN \A y \in 1..Len(posted) :
               /\ \A x \in 1..(y - 1) :
                      SentBeforeConfirmation(i, posted[x])
                      /\ SentBeforeConfirmation(i, posted[y])
                      => posted[x] < posted[y]
               /\ ~SentBeforeConfirmation(i, posted[y])
                  => \A k \in 1..(posted[y] - 1) :
                         SentBeforeConfirmation(i, k)
                         => \E x \in 1..(y - 1) : posted[x] = k

(* Two messages buffered before the confirmation and one sent after it
   have all been posted. *)
W_C1 ==
    /\ trace["A"].sentReady = <<FALSE, FALSE, TRUE>>
    /\ trace["A"].posted = <<Payloads[1], Payloads[2], Payloads[3]>>
    /\ postis["A"].sendBuffer = <<>>

NeverDestroyedAndCanPost ==
    \A i \in Instances :
        /\ postis[i].phase # "destroyed"
        /\ postis[i].phase = "live" => postis[i].canPost

BothConfirmed == \A i \in Instances : postis[i].ready

(* C2: when both instances can post to their target and neither is ever
   destroyed, both are eventually Confirmed, whichever is constructed
   first. *)
C2_BothEventuallyConfirmed == []NeverDestroyedAndCanPost => <>BothConfirmed

(* Both are Confirmed although probes of A reached the window of B before
   B had attached its listener. *)
W_C2 ==
    /\ BothConfirmed
    /\ trace["B"].lost
    /\ ~trace["A"].lost

(***************************************************************************)
(* Two Transports over a pair of adapters (SpecPair).                      *)
(***************************************************************************)
T1 == peers["A"]
T2 == peers["B"]

Resolved(k, r) ==
    /\ Len(T2.p) >= k
    /\ T2.p[k].state = "fulfilled"
    /\ T2.p[k].value = r

(* C12: every request T2 sends, before or after its channel is Confirmed,
   is eventually resolved with what the 'request' listener of T1 responds
   for its data (the listener responds with the data it is given). *)
C12_RequestEventuallyResolved ==
    \A k \in 1..MaxRequests, d \in Data :
        (Len(T2.asked) >= k /\ T2.asked[k].data = d) ~> Resolved(k, d)

(* A request sent before the channel of T2 was Confirmed and one sent after
   it are both resolved. *)
W_C12 ==
    /\ Len(T2.asked) = 2
    /\ ~T2.asked[1].ready /\ Resolved(1, T2.asked[1].data)
    /\ T2.asked[2].ready /\ Resolved(2, T2.asked[2].data)

(***************************************************************************)
(* Properties of inbound messages.                                         *)
(***************************************************************************)
(* The event is one the listener of instance i accepts. *)
Acceptable(i, event) ==
    /\ event.data.json
    /\ ~event.data.null
    /\ event.data.value.postis
    /\ event.data.value.scope = Scope
    /\ (postis[i].allowedOrigin # undefined =>
            event.origin = postis[i].allowedOrigin)

(* C13: an inbound message is accepted only if it parses as JSON, its
   marker is truthy, its scope is the instance's and, when an origin
   allow-list is set, its origin is the allowed one; the dispatch of any
   other message calls no listener, adds nothing to the inbound buffer and
   changes nothing else of either instance. *)
C13_OnlyWellFormedMessagesAccepted ==
    [][\A i \in Instances :
           (/\ windows[i] # <<>>
            /\ postis[i].attached
            /\ ~Acceptable(i, Head(windows[i]))
            /\ Deliver(i))
           => /\ postis' = postis
              /\ trace' = [trace EXCEPT ![i].ignored = TRUE]
              /\ peers' = peers
              /\ windows' = [windows EXCEPT ![i] = Tail(@)]]_vars

(* A, with an origin allow-list, ignored an event and passed another to
   the application's callback. *)
W_C13 ==
    /\ postis["A"].allowedOrigin = Origin("B")
    /\ trace["A"].ignored
    /\ Len(trace["A"].received) = 1
    /\ windows["A"] = <<>>

(***************************************************************************)
(* Properties of the liveness flag.                                        *)
(***************************************************************************)
(* C14, as stated: once the liveness flag of an instance is true it is
   true in every later state, whatever operation follows. *)
C14_ConfirmedNeverReverts ==
    [][\A i \in Instances : postis[i].ready => postis'[i].ready]_vars

(* C14: once the liveness flag of an instance is true it stays true until
   the instance is destroyed; destroy sets it to false, and the flag of a
   destroyed instance stays false. *)
C14_ConfirmedUntilDestroyed ==
    [][\A i \in Instances :
           /\ postis[i].ready =>
                  (postis'[i].ready <=> postis'[i].phase # "destroyed")
           /\ postis[i].phase = "destroyed" =>
                  (~postis'[i].ready /\ postis'[i].phase = "destroyed")]_vars

(* A was confirmed (it posted a message of the application) and was then
   destroyed, while events were still to be dispatched to its window. *)
W_C14 ==
    /\ trace["A"].posted # <<>>
    /\ postis["A"].phase = "destroyed"
    /\ ~postis["A"].ready
    /\ postis["B"].ready

(***************************************************************************)
(* Properties of JitsiLocalStorage (SpecStorage).                          *)
(***************************************************************************)
(* The backend in use holds a value under the key. *)
Written(s, keyName) ==
    IF s._storage = "localStorage" THEN s.window[keyName] # undefined
    ELSE s.dummy[keyName] # undefined

(* C16: where window.localStorage is accessible, the two storage backends
   share no data: after setLocalStorageDisabled(true) getItem of any key
   written before the switch returns null; after
   setLocalStorageDisabled(false) a value written while disabled is not
   visible, and getItem returns what window.localStorage held before the
   switch. *)
C16_BackendsShareNoData ==
    [][storage.access = "storage" =>
           /\ SetLocalStorageDisabled(TRUE) =>
                  \A k \in Keys :
                      Written(storage, k) => getItem(storage', k) = null
           /\ (storage._localStorageDisabled /\ SetLocalStorageDisabled(FALSE)) =>
                  \A k \in Keys :
                      getItem(storage', k) = NativeGetItem(storage.window, k)]_vars

(***************************************************************************)
(* Properties of AnalyticsCacheAdapater (SpecAnalytics).                   *)
(***************************************************************************)
(* C17: setAnalyticsHandlers(handlers) on an adapter that is not disposed
   delivers every cached event, in the order it was sent, to each of the
   handlers and disables the cache; every later sendEvent goes to the
   handlers instead of the cache. *)
C17_CachedEventsDeliveredInOrder ==
    [][/\ \A handlers \in HandlerLists :
              (~analytics._disposed /\ SetAnalyticsHandlers(handlers)) =>
                  /\ ~analytics'._cache.truthy
                  /\ \A n \in 1..Len(handlers) :
                         analytics'.delivered[handlers[n]] =
                             analytics.delivered[handlers[n]]
                                 \o analytics._cache.events
       /\ (/\ ~analytics._disposed
           /\ ~analytics._cache.truthy
           /\ AnalyticsSendEvent) =>
              /\ ~analytics'._cache.truthy
              /\ \A n \in 1..Len(analytics._analyticsHandlers) :
                     analytics'.delivered[analytics._analyticsHandlers[n]] =
                         Append(analytics.delivered[analytics._analyticsHandlers[n]],
                                analytics'.sent)]_vars

(* The most recent n of the first k events, in send order. *)
MostRecent(n, k) == [i \in 1..n |-> k - n + i]

(* C18: while the cache is enabled it holds at most MAX_CACHE_SIZE events:
   the most recently sent ones, in send order. *)
C18_CacheHoldsMostRecent ==
    analytics._cache.truthy =>
        /\ Len(analytics._cache.events) <= MAX_CACHE_SIZE
        /\ analytics._cache.events =
               MostRecent(IF analytics.sent > MAX_CACHE_SIZE THEN MAX_CACHE_SIZE
                          ELSE analytics.sent,
                          analytics.sent)

(* More than MAX_CACHE_SIZE events were sent and the cache is enabled: the
   first one has been dropped. *)
W_C18 ==
    /\ analytics._cache.truthy
    /\ analytics.sent = MAX_CACHE_SIZE + 2
    /\ Len(analytics._cache.events) = MAX_CACHE_SIZE
    /\ analytics._cache.events[1] = 3

(***************************************************************************)
(* Properties of the send buffer (SpecEchoes).                             *)
(***************************************************************************)
RECURSIVE Occurrences(_, _)
Occurrences(seq, x) ==
    IF seq = <<>> THEN 0
    ELSE (IF Head(seq) = x THEN 1 ELSE 0) + Occurrences(Tail(seq), x)

(* C19: a message of the application sent while the liveness flag was false
   is posted to the target window at most once; it is not posted before
   the instance gets its own readyCheckID back, and once the flag is true it
   has been posted exactly once, however many times the readyCheckID comes
   back afterwards. *)
C19_BufferedSendsPostedOnce ==
    \A i \in Instances :
        \A k \in 1..Len(trace[i].sentReady) :
            ~trace[i].sentReady[k] =>
                LET n == Occurrences(trace[i].posted, Payloads[k])
                IN /\ n <= 1
                   /\ trace[i].echoes = 0 => n = 0
                   /\ postis[i].ready => n = 1

(* A sent a message while its flag was false, was confirmed, and then got
   its readyCheckID back a second time: the message was posted once. *)
W_C19 ==
    /\ postis["A"].ready
    /\ trace["A"].echoes = 2
    /\ Len(trace["A"].sentReady) >= 2
    /\ ~trace["A"].sentReady[1]
    /\ ~trace["A"].sentReady[2]
    /\ Occurrences(trace["A"].posted, Payloads[1]) = 1
    /\ Occurrences(trace["A"].posted, Payloads[2]) = 1

(***************************************************************************)
(* Properties of the listen buffer                                         *)
(***************************************************************************)

(* C22: a payload accepted for a method while no listener is registered for
   it is appended to the method's buffer and no callback is called; the
   first listen for the method calls its callback with the buffered
   payloads in arrival order and empties the buffer; a later listen for the
   method calls no callback; a payload accepted while listeners are
   registered is handed once to each of them and is not buffered. *)
C22_BufferReplayedToFirstListener ==
    [][LET M == POSTIS_METHOD_NAME
           before == postis["A"].listeners[M]
           buffer == postis["A"].listenBuffer[M]
       IN /\ \A cb \in ApplicationCallbacks :
                 postis'["A"].listeners[M] = Append(before, cb) =>
                     /\ postis'["A"].listenBuffer[M] = <<>>
                     /\ \A other \in ApplicationCallbacks :
                            ParamsOf(trace'["A"].received, other) =
                                ParamsOf(trace["A"].received, other)
                                \o (IF other = cb /\ before = <<>>
                                    THEN buffer ELSE <<>>)
          /\ (windows["A"] # <<>> /\ windows'["A"] = Tail(windows["A"])
              /\ postis["A"].attached) =>
                 LET params == safeJsonParse(Head(windows["A"]).data).params
                 IN IF before = <<>>
                    THEN /\ postis'["A"].listenBuffer[M] = Append(buffer, params)
                         /\ trace'["A"].received = trace["A"].received
                    ELSE /\ postis'["A"].listenBuffer[M] = <<>>
                         /\ \A other \in ApplicationCallbacks :
                                ParamsOf(trace'["A"].received, other) =
                                    ParamsOf(trace["A"].received, other)
                                    \o (IF \E n \in 1..Len(before) : before[n] = other
                                        THEN <<params>> ELSE <<>>)]_vars

(* The first callback got the two buffered payloads in the order they came
   in, then a second callback was registered and got nothing. *)
W_C22 ==
    /\ postis["A"].listeners[POSTIS_METHOD_NAME] = <<applicationCallback, laterCallback>>
    /\ trace["A"].received =
           <<[callback |-> applicationCallback, params |-> Payloads[2]],
             [callback |-> applicationCallback, params |-> Payloads[1]]>>
    /\ postis["A"].listenBuffer[POSTIS_METHOD_NAME] = <<>>

(***************************************************************************)
(* Properties of ready(callback)                                           *)
(***************************************************************************)

(* The callback of the k-th call of ready on B was invoked. *)
Invoked(k) ==
    \E n \in 1..Len(trace["B"].invoked) : trace["B"].invoked[n].callback = k

(* No callback is invoked twice, none is invoked while the liveness flag is
   false, and none is invoked while its timeout is still pending. *)
ReadyCallbacksSafe ==
    /\ \A m, n \in 1..Len(trace["B"].invoked) :
           trace["B"].invoked[m].callback = trace["B"].invoked[n].callback => m = n
    /\ \A n \in 1..Len(trace["B"].invoked) :
           /\ trace["B"].invoked[n].ready
           /\ trace["B"].invoked[n].callback \notin postis["B"].timers

(* A call of ready made while the flag is true invokes its callback in that
   call. *)
ReadyCallsImmediately ==
    (trace'["B"].readyCalls = trace["B"].readyCalls + 1 /\ postis["B"].ready) =>
        /\ trace'["B"].invoked =
               Append(trace["B"].invoked,
                      [callback |-> trace'["B"].readyCalls, ready |-> TRUE])
        /\ postis'["B"].timers = postis["B"].timers

(* C23 as stated: a callback passed to ready is invoked at most once and
   only while the channel is Confirmed, at once if the channel is Confirmed
   at the call, and otherwise eventually once the channel has become
   Confirmed. *)
C23_PollingCallbackInvokedOnceConfirmed ==
    /\ []ReadyCallbacksSafe
    /\ [][ReadyCallsImmediately]_vars
    /\ \A k \in 1..MaxReadyCalls :
           (k \in postis["B"].timers /\ postis["B"].ready) ~> Invoked(k)

(* C23: a callback passed to ready is invoked at most once and only while
   the channel is Confirmed, at once if the channel is Confirmed at the
   call; a callback still polling when the channel has become Confirmed is
   eventually invoked unless the instance is destroyed first. *)
C23_PollingCallbackInvokedUnlessDestroyed ==
    /\ []ReadyCallbacksSafe
    /\ [][ReadyCallsImmediately]_vars
    /\ \A k \in 1..MaxReadyCalls :
           (k \in postis["B"].timers /\ postis["B"].ready)
               ~> (Invoked(k) \/ postis["B"].phase = "destroyed")

(* The first call of ready was made before B was Confirmed and its callback
   was invoked after a timeout; the second was made afterwards and its
   callback was invoked in the call. *)
W_C23 ==
    /\ trace["B"].invoked = <<[callback |-> 2, ready |-> TRUE],
                              [callback |-> 1, ready |-> TRUE]>>
    /\ postis["B"].timers = {}
    /\ postis["B"].phase = "live"

(***************************************************************************)
(* Properties of the backlog and the responders (SpecBacklog).             *)
(***************************************************************************)

(* The backlog entries that a replay to a listener leaves: those for which
   the listener's call returned a value that is not truthy. *)
Unclaimed(entries, calls) ==
    SelectSeq(entries,
              LAMBDA e : \E c \in 1..Len(calls) :
                             calls[c].eid = e.eid /\ ~Truthy(calls[c].ret))

(* C24: an on(eventName, listener) that returns calls the listener once
   with every entry of the backlog, in order and whatever name the entry
   was emitted under, and the backlog it leaves consists of the entries for
   which the listener returned a value that is not truthy, in their
   order. *)
C24_ReplayIgnoresEventName ==
    [][\A n \in EventNames, l \in Listeners :
           (/\ last'.op = "on" /\ last'.name = n /\ last'.exc = noException
            /\ On(n, l, 0)) =>
               /\ Len(last'.ev.calls) = Len(Backlog)
               /\ \A i \in 1..Len(Backlog) :
                      /\ last'.ev.calls[i].eid = Backlog[i].eid
                      /\ last'.ev.calls[i].args = Backlog[i].args
                      /\ last'.ev.calls[i].name = Backlog[i].name
                      /\ last'.ev.calls[i].listener = l
               /\ transport'._unprocessedMessages =
                      Unclaimed(Backlog, last'.ev.calls)]_vars

(* on('event', fn) has passed fn a Request and an Event of the backlog; fn
   claimed the Request, emitted under 'request', and did not claim the
   Event, which is still in the backlog. *)
W_C24 ==
    /\ last.op = "on"
    /\ last.name = "event"
    /\ last.exc = noException
    /\ Len(last.ev.calls) = 2
    /\ Len(Backlog) = 1
    /\ \E c \in 1..2 :
           /\ last.ev.calls[c].name = "request"
           /\ Truthy(last.ev.calls[c].ret)
           /\ last.ev.calls[3 - c].eid = Backlog[1].eid
           /\ ~Truthy(last.ev.calls[3 - c].ret)

(* Call c of the step just taken is a listener answering a Request: the
   listener calls the responder it is passed. *)
Answers(c) ==
    /\ last'.ev.calls[c].listener \in {"respond", "respondOnly"}
    /\ last'.ev.calls[c].args.responder # noResponder

(* The entry that call c of the step just taken was about is in the
   backlog after the step: the entry replayed, or the entry of the
   emission. *)
Kept(c) ==
    IF last'.ev.calls[c].eid # 0
    THEN \E j \in 1..Len(transport'._unprocessedMessages) :
             transport'._unprocessedMessages[j].eid = last'.ev.calls[c].eid
    ELSE Len(transport'._unprocessedMessages) > Len(Backlog)

(* The Response envelopes with this id sent in the step just taken. *)
ResponsesSent(id) ==
    Cardinality({s \in 1..Len(last'.ev.sent) :
                     last'.ev.sent[s].msg.type = RESPONSE /\ last'.ev.sent[s].msg.id = id})

(* C25 as stated: a Request that a listener has answered through its
   responder is not kept in the backlog, whatever the listener returned, and
   one Response at most is sent for its id. *)
C25_AnsweredRequestLeavesBacklog ==
    [][last'.exc = noException =>
           \A c \in 1..Len(last'.ev.calls) :
               Answers(c) =>
                   /\ ~Kept(c)
                   /\ ResponsesSent(last'.ev.calls[c].args.responder) <= 1]_vars

(* C25: a Request that a listener has answered through its responder leaves
   the backlog exactly when a listener called with it returned a truthy
   value; every listener that calls the responder sends one Response
   carrying the Request's id. *)
C25_AnsweredRequestKeptUnlessClaimed ==
    [][last'.exc = noException =>
           \A c \in 1..Len(last'.ev.calls) :
               Answers(c) =>
                   /\ Kept(c) <=>
                          ~\E d \in 1..Len(last'.ev.calls) :
                               /\ last'.ev.calls[d].eid = last'.ev.calls[c].eid
                               /\ last'.ev.calls[d].args = last'.ev.calls[c].args
                               /\ Truthy(last'.ev.calls[d].ret)
                   /\ ResponsesSent(last'.ev.calls[c].args.responder) =
                          Cardinality({d \in 1..Len(last'.ev.calls) :
                              /\ Answers(d)
                              /\ last'.ev.calls[d].args.responder =
                                     last'.ev.calls[c].args.responder})]_vars

(* A 'request' listener answered an inbound Request and returned
   undefined: the Response was sent and the Request is in the backlog. *)
W_C25 ==
    /\ last.op = "receive"
    /\ last.type = REQUEST
    /\ last.exc = noException
    /\ Len(last.ev.calls) = 1
    /\ last.ev.calls[1].listener = "respondOnly"
    /\ Len(last.ev.sent) = 1
    /\ last.ev.sent[1].msg.id = last.id
    /\ ~last.ev.sent[1].threw
    /\ \E j \in 1..Len(Backlog) : Backlog[j].args.responder = last.id

(* C26: a listener that calls the responder of a Request, at dispatch or at
   a replay, hands the Response to the backend that is current at that
   moment, whichever backend the Request came in on; when the Transport has
   no backend the call throws, the error leaves the operation, and nothing
   is sent. *)
C26_ResponderUsesCurrentBackend ==
    [][\A c \in 1..Len(last'.ev.calls) :
           Answers(c) =>
               IF transport._backend = null
               THEN /\ last'.ev.calls[c].ret = "threw"
                    /\ last'.exc = NullBackendTypeError
                    /\ last'.ev.sent = <<>>
               ELSE /\ \A s \in 1..Len(last'.ev.sent) :
                           last'.ev.sent[s].backend = transport._backend
                    /\ \E s \in 1..Len(last'.ev.sent) :
                           last'.ev.sent[s].msg =
                               Envelope(RESPONSE, undefined,
                                        last'.ev.calls[c].args.responder,
                                        last'.ev.calls[c].args.data, undefined)]_vars

(* A Request came in on b1 while b2 was the current backend; the listener
   answered it and the Response went to b2. *)
W_C26 ==
    /\ last.op = "receive"
    /\ last.ev.via = "b1"
    /\ transport._backend = "b2"
    /\ Len(last.ev.calls) = 1
    /\ last.ev.calls[1].listener = "respond"
    /\ last.ev.sent = <<[backend |-> "b2",
                         msg |-> Envelope(RESPONSE, undefined, last.id,
                                          last.ev.calls[1].args.data, undefined),
                         threw |-> FALSE]>>

(* A Request went to the backlog and dispose was called; a listener
   registered afterwards called its responder: the call threw. *)
W_C26_NoBackend ==
    /\ last.op = "on"
    /\ transport._backend = null
    /\ last.exc = NullBackendTypeError
    /\ \E c \in 1..Len(last.ev.calls) :
           /\ last.ev.calls[c].eid # 0
           /\ last.ev.calls[c].ret = "threw"

(***************************************************************************)
(* Properties of a destroyed instance (SpecDestroy).                       *)
(***************************************************************************)

(* C27: once A is destroyed it stays destroyed with the liveness flag
   false; no step posts a probe or a message of A to the peer's window; a
   message event that reaches A's window is handed to no callback and is
   not buffered; the send buffer keeps what it held and gains what the
   application sends; and no callback passed to ready is invoked. *)
C27_DestroyedInstanceIsSilent ==
    [][postis["A"].phase = "destroyed" =>
           /\ postis'["A"].phase = "destroyed"
           /\ ~postis'["A"].ready
           /\ \/ windows'["B"] = windows["B"]
              \/ windows["B"] # <<>> /\ windows'["B"] = Tail(windows["B"])
           /\ trace'["A"].posted = trace["A"].posted
           /\ trace'["A"].echoes = trace["A"].echoes
           /\ (windows["A"] # <<>> /\ windows'["A"] = Tail(windows["A"])) =>
                  /\ trace'["A"].received = trace["A"].received
                  /\ postis'["A"].listenBuffer = postis["A"].listenBuffer
                  /\ postis'["A"].sendBuffer = postis["A"].sendBuffer
           /\ Len(postis'["A"].sendBuffer) >= Len(postis["A"].sendBuffer)
           /\ SubSeq(postis'["A"].sendBuffer, 1, Len(postis["A"].sendBuffer)) =
                  postis["A"].sendBuffer
           /\ trace'["A"].invoked = trace["A"].invoked]_vars

(* A was destroyed before the handshake ended, with a message in its send
   buffer and a callback of ready polling; afterwards its application sent
   again, a message event for it was dropped and the timeout fired: both
   messages are in the send buffer, nothing was posted and nothing
   invoked. *)
W_C27 ==
    /\ postis["A"].phase = "destroyed"
    /\ Len(trace["A"].sentReady) = 2
    /\ Len(postis["A"].sendBuffer) >= 2
    /\ trace["A"].posted = <<>>
    /\ trace["A"].lost
    /\ postis["A"].timers # {}
    /\ trace["A"].invoked = <<>>

(***************************************************************************)
(* Properties of the flush (SpecFlush).                                    *)
(***************************************************************************)

(* C28: when the readyMethod callback of A is called with A's own
   readyCheckID, the call returns and the send buffer is empty afterwards,
   whatever the buffer held and whether or not the target window can
   post. *)
C28_EchoFlushTerminates ==
    [][trace'["A"].echoes = trace["A"].echoes + 1 =>
           /\ ~postis'["A"].hung
           /\ postis'["A"].sendBuffer = <<>>]_vars

(* The echo came back while the target window could post and the buffer
   held a probe and a message: the flush ended and the buffer is empty. *)
W_C28_FlushedWhilePosting ==
    /\ trace["A"].echoes = 1
    /\ ~postis["A"].hung
    /\ postis["A"].canPost
    /\ postis["A"].sendBuffer = <<>>
    /\ trace["A"].posted # <<>>
    /\ \E n \in 1..Len(trace["A"].sentReady) : ~trace["A"].sentReady[n]

(***************************************************************************)
(* Properties of an adapter wired late (SpecEarly).                        *)
(***************************************************************************)

(* The messages in a window's queue that carry an envelope. *)
RECURSIVE Pending(_)
Pending(q) ==
    IF q = <<>> THEN 0
    ELSE (IF Head(q).data.value.method = POSTIS_METHOD_NAME THEN 1 ELSE 0)
         + Pending(Tail(q))

(* The envelope of the n-th call of A's adapter callback made before the
   adapter was wired is in the backlog of A's Transport: no listener is
   registered there, so the dispatcher keeps what it is handed. *)
Reached(n) ==
    \E j \in 1..Len(peers["A"].t._unprocessedMessages) :
        /\ n <= Len(trace["A"].received)
        /\ peers["A"].t._unprocessedMessages[j].args.responder =
               trace["A"].received[n].params.id
        /\ peers["A"].t._unprocessedMessages[j].args.data =
               trace["A"].received[n].params.data

(* C29 as stated: an envelope the channel hands to the adapter before a
   receive callback was set reaches the Transport's dispatcher once the
   adapter is wired. *)
C29_EarlyEnvelopeReachesDispatcher ==
    (peers["A"].connected /\ trace["A"].received # <<>>) ~> Reached(1)

(* C29: an envelope the channel hands to the adapter before a receive
   callback was set is passed to the adapter's initial callback, which does
   nothing: the Transport's state is as constructed until the adapter is
   wired and also right after the wiring, the channel has buffered nothing
   to replay, and every envelope posted to A is in A's window queue, was
   dropped by the initial callback, or was dispatched after the wiring. *)
C29_EarlyEnvelopeDropped ==
    [][/\ ~peers["A"].connected =>
              /\ peers'["A"].t._unprocessedMessages = <<>>
              /\ peers'["A"].h = HistoryInit
       /\ postis'["A"].listenBuffer[POSTIS_METHOD_NAME] = <<>>
       /\ Len(peers'["A"].t._unprocessedMessages) + Len(trace'["A"].received)
              + Pending(windows'["A"]) = Len(trace'["B"].posted)
       /\ \A n \in 1..Len(trace'["A"].received) :
              \A j \in 1..Len(peers'["A"].t._unprocessedMessages) :
                  peers'["A"].t._unprocessedMessages[j].args.responder #
                      trace'["A"].received[n].params.id]_vars

(* The first Request reached A before its adapter was wired and was
   dropped; the second came after the wiring and was dispatched. *)
W_C29 ==
    /\ peers["A"].connected
    /\ Len(trace["A"].received) = 1
    /\ trace["A"].received[1].callback = receiveCallback
    /\ trace["A"].received[1].params.id = 1
    /\ Len(peers["A"].t._unprocessedMessages) = 1
    /\ peers["A"].t._unprocessedMessages[1].args.responder = 2

(***************************************************************************)
(* Properties of the storage switch (SpecStorage).                         *)
(***************************************************************************)

(* C30: after the constructor and any calls of setLocalStorageDisabled,
   also when reading window.localStorage throws or yields undefined,
   isLocalStorageDisabled() returns true exactly when the wrapper holds a
   DummyLocalStorage. *)
C30_DisabledFlagTellsBackend ==
    isLocalStorageDisabled(storage) <=> storage._storage = "DummyLocalStorage"

(* window.localStorage is accessible and the application has switched to
   the DummyLocalStorage: the flag is true and agrees with the backend. *)
W_C30_SwitchedWhileAccessible ==
    /\ storage.access = "storage"
    /\ storage._storage = "DummyLocalStorage"
    /\ isLocalStorageDisabled(storage)

====
